---------------------------- MODULE Spec2Model ----------------------------
(***************************************************************************)
(* A model of the sharpEdge fair-value engine:                             *)
(*   app/services/sharpedge_model.py  (class SharpEdge)                    *)
(*   app/services/nfl_weights.py      (class NFLWeightingEngine)           *)
(*                                                                         *)
(* Python floats are modelled as exact rationals <<n, d>> with d > 0 in    *)
(* lowest terms, so every arithmetic identity below is one of real         *)
(* arithmetic; rounding of IEEE doubles is outside the model.  A Python    *)
(* exception is a result record whose kind is the exception's class.       *)
(* A Python dict is a function; None is the empty tuple <<>> and a         *)
(* present optional value v is <<v>>.                                      *)
(***************************************************************************)
EXTENDS Integers, Sequences, FiniteSets, TLC

VARIABLES
    weights,              \* SharpEdge.weights
    exchange_weights,     \* SharpEdge.exchange_weights
    liquidity_threshold,  \* SharpEdge.liquidity_threshold
    min_books,            \* PlayerPropsModel.min_books
    nfl_weights_primary,  \* NFLWeightingEngine.nfl_weights_primary
    observed,             \* the first consensus call a caller compares later ones with
    pc,                   \* "idle": no call in progress; "returned": a call has returned
    call,                 \* the last call: its operation and arguments
    result                \* what the last call returned or raised

vars ==
    <<weights, exchange_weights, liquidity_threshold, min_books, nfl_weights_primary,
      observed, pc, call, result>>

(***************************************************************************)
(* Rational arithmetic (the float operators of the Python source).         *)
(***************************************************************************)
Abs(n) == IF n < 0 THEN -n ELSE n

RECURSIVE Gcd(_, _)
Gcd(a, b) == IF b = 0 THEN a ELSE Gcd(b, a % b)

\* the rational n/d in lowest terms with a positive denominator (d # 0)
R(n, d) ==
    LET g == Gcd(Abs(n), Abs(d))
        s == IF d < 0 THEN -1 ELSE 1
    IN  <<(s * n) \div g, (s * d) \div g>>

Zero == R(0, 1)
One == R(1, 1)
\* the operands are in lowest terms; common factors are divided out before
\* multiplying, which keeps the intermediate integers small
RAdd(x, y) ==
    LET g == Gcd(x[2], y[2])
    IN  R(x[1] * (y[2] \div g) + y[1] * (x[2] \div g), x[2] * (y[2] \div g))
RNeg(x) == <<-x[1], x[2]>>
RSub(x, y) == RAdd(x, RNeg(y))
RMul(x, y) ==
    LET g1 == Gcd(Abs(x[1]), y[2])
        g2 == Gcd(Abs(y[1]), x[2])
    IN  R((x[1] \div g1) * (y[1] \div g2), (x[2] \div g2) * (y[2] \div g1))
\* x / y for y # 0; Python raises ZeroDivisionError when y = 0, which every
\* caller below tests before dividing
RDiv(x, y) == RMul(x, IF y[1] < 0 THEN <<-y[2], -y[1]>> ELSE <<y[2], y[1]>>)
RLt(x, y) == RSub(x, y)[1] < 0
RLe(x, y) == RSub(x, y)[1] <= 0
IsZero(x) == x[1] = 0
\* int(x) of Python: truncation toward zero
RTrunc(x) == IF x[1] >= 0 THEN x[1] \div x[2] ELSE -((-x[1]) \div x[2])

\* a Python exception raised by a call
Raise(kind, msg) == [kind |-> kind, msg |-> msg]
IsOk(r) == r.kind = "ok"

\* a set as a list, in some fixed order (the iteration order of a dict)
RECURSIVE SetToSeq(_)
SetToSeq(S) ==
    IF S = {} THEN <<>>
    ELSE LET x == CHOOSE y \in S : TRUE IN <<x>> \o SetToSeq(S \ {x})

(***************************************************************************)
(* SharpEdge: the pure helpers.                                            *)
(***************************************************************************)

\* decimal_to_american without its check of decimal_odds < 1.0
decimal_to_american_unguarded(decimal_odds) ==
    IF RLe(R(2, 1), decimal_odds)
    THEN [kind |-> "ok",
          value |-> "+" \o ToString(RTrunc(RMul(RSub(decimal_odds, One), R(100, 1))))]
    ELSE IF IsZero(RSub(decimal_odds, One))
         THEN Raise("ZeroDivisionError", "float division by zero")
         ELSE [kind |-> "ok",
               value |-> ToString(RTrunc(RDiv(R(-100, 1), RSub(decimal_odds, One))))]

\* x rounded to the nearest integer (halves away from zero)
RRound(x) ==
    IF x[1] >= 0 THEN (2 * x[1] + x[2]) \div (2 * x[2])
    ELSE -((2 * (-x[1]) + x[2]) \div (2 * x[2]))

\* decimal_to_american that rounds to the nearest integer instead of truncating
decimal_to_american_rounded(decimal_odds) ==
    IF RLt(decimal_odds, One)
    THEN Raise("ValueError", "Decimal odds must be 1.0 or greater")
    ELSE IF RLe(R(2, 1), decimal_odds)
    THEN [kind |-> "ok",
          value |-> "+" \o ToString(RRound(RMul(RSub(decimal_odds, One), R(100, 1))))]
    ELSE IF IsZero(RSub(decimal_odds, One))
         THEN Raise("ZeroDivisionError", "float division by zero")
         ELSE [kind |-> "ok",
               value |-> ToString(RRound(RDiv(R(-100, 1), RSub(decimal_odds, One))))]

\* decimal_to_american that converts the odds with the stake left in
decimal_to_american_gross(decimal_odds) ==
    IF RLt(decimal_odds, One)
    THEN Raise("ValueError", "Decimal odds must be 1.0 or greater")
    ELSE IF RLe(R(2, 1), decimal_odds)
    THEN [kind |-> "ok",
          value |-> "+" \o ToString(RTrunc(RMul(decimal_odds, R(100, 1))))]
    ELSE IF IsZero(RSub(decimal_odds, One))
         THEN Raise("ZeroDivisionError", "float division by zero")
         ELSE [kind |-> "ok",
               value |-> ToString(RTrunc(RDiv(R(-100, 1), RSub(decimal_odds, One))))]

\* SharpEdge.decimal_to_american(decimal_odds): the string of American odds
decimal_to_american(decimal_odds) ==
    IF RLt(decimal_odds, One)
    THEN Raise("ValueError", "Decimal odds must be 1.0 or greater")
    ELSE IF RLe(R(2, 1), decimal_odds)
    THEN [kind |-> "ok",
          value |-> "+" \o ToString(RTrunc(RMul(RSub(decimal_odds, One), R(100, 1))))]
    ELSE IF IsZero(RSub(decimal_odds, One))
         THEN Raise("ZeroDivisionError", "float division by zero")
         ELSE [kind |-> "ok",
               value |-> ToString(RTrunc(RDiv(R(-100, 1), RSub(decimal_odds, One))))]

\* PlayerPropsModel.decimal_to_american(decimal_odds)
props_decimal_to_american(decimal_odds) ==
    IF RLt(decimal_odds, One)
    THEN Raise("ValueError", "Decimal odds must be 1.0 or greater")
    ELSE IF RLe(R(2, 1), decimal_odds)
    THEN LET american_odds == RTrunc(RMul(RSub(decimal_odds, One), R(100, 1)))
         IN  [kind |-> "ok", value |-> "+" \o ToString(american_odds)]
    ELSE IF IsZero(RSub(decimal_odds, One))
         THEN Raise("ZeroDivisionError", "float division by zero")
         ELSE LET american_odds == RTrunc(RDiv(R(-100, 1), RSub(decimal_odds, One)))
              IN  [kind |-> "ok", value |-> ToString(american_odds)]

\* devig_multiplicative that returns the implied probabilities unnormalized
devig_unnormalized(odds) ==
    IF Len(odds) # 2
    THEN Raise("ValueError", "Multiplicative devig requires exactly 2 odds")
    ELSE IF IsZero(odds[1]) \/ IsZero(odds[2])
         THEN Raise("ZeroDivisionError", "float division by zero")
         ELSE [kind |-> "ok", probs |-> <<RDiv(One, odds[1]), RDiv(One, odds[2])>>]

\* SharpEdge.devig_multiplicative(odds): odds is a tuple of decimal odds
devig_multiplicative(odds) ==
    IF Len(odds) # 2
    THEN Raise("ValueError", "Multiplicative devig requires exactly 2 odds")
    ELSE IF \E i \in 1..2 : IsZero(odds[i])
         THEN Raise("ZeroDivisionError", "float division by zero")
         ELSE LET implied_probs == [i \in 1..2 |-> RDiv(One, odds[i])]
                  overround == RAdd(implied_probs[1], implied_probs[2])
              IN  IF IsZero(overround)
                  THEN Raise("ZeroDivisionError", "float division by zero")
                  ELSE [kind |-> "ok",
                        probs |-> [i \in 1..2 |-> RDiv(implied_probs[i], overround)]]

\* PlayerPropsModel.devig_multiplicative(odds)
props_devig_multiplicative(odds) ==
    IF Len(odds) # 2
    THEN Raise("ValueError", "Must provide exactly 2 odds for two-way market")
    ELSE IF \E i \in 1..2 : IsZero(odds[i])
         THEN Raise("ZeroDivisionError", "float division by zero")
         ELSE LET implied_probs == [i \in 1..2 |-> RDiv(One, odds[i])]
                  overround == RAdd(implied_probs[1], implied_probs[2])
              IN  IF IsZero(overround)
                  THEN Raise("ZeroDivisionError", "float division by zero")
                  ELSE [kind |-> "ok",
                        probs |-> [i \in 1..2 |-> RDiv(implied_probs[i], overround)]]

\* sum(book['weight'] for book in market_probs)
RECURSIVE SumWeight(_)
SumWeight(market_probs) ==
    IF market_probs = <<>> THEN Zero
    ELSE RAdd(Head(market_probs).weight, SumWeight(Tail(market_probs)))

\* sum(book['prob'] * book['weight'] for book in market_probs)
RECURSIVE SumProbWeight(_)
SumProbWeight(market_probs) ==
    IF market_probs = <<>> THEN Zero
    ELSE RAdd(RMul(Head(market_probs).prob, Head(market_probs).weight),
              SumProbWeight(Tail(market_probs)))

\* calculate_fair_probability as an unweighted mean of the probabilities
RECURSIVE SumProb(_)
SumProb(market_probs) ==
    IF market_probs = <<>> THEN Zero
    ELSE RAdd(Head(market_probs).prob, SumProb(Tail(market_probs)))

fair_probability_unweighted(market_probs) ==
    IF market_probs = <<>>
    THEN Raise("ValueError", "market_probs cannot be empty")
    ELSE IF IsZero(SumWeight(market_probs))
         THEN Raise("ValueError", "Total weight cannot be zero")
         ELSE [kind |-> "ok",
               value |-> RDiv(SumProb(market_probs), R(Len(market_probs), 1))]

calculate_fair_probability(market_probs) ==
    IF market_probs = <<>>
    THEN Raise("ValueError", "market_probs cannot be empty")
    ELSE LET total_weight == SumWeight(market_probs)
         IN  IF IsZero(total_weight)
             THEN Raise("ValueError", "Total weight cannot be zero")
             ELSE [kind |-> "ok",
                   value |-> RDiv(SumProbWeight(market_probs), total_weight)]

\* calculate_ev that leaves out the lost stake (1 - fair_prob)
calculate_ev_no_stake(offered_odds, fair_prob) ==
    IF RLe(offered_odds, One)
    THEN Raise("ValueError", "Offered odds must be greater than 1.0")
    ELSE IF ~(RLt(Zero, fair_prob) /\ RLt(fair_prob, One))
         THEN Raise("ValueError", "Fair probability must be between 0.0 and 1.0")
         ELSE [kind |-> "ok",
               value |-> RMul(RMul(fair_prob, RSub(offered_odds, One)), R(100, 1))]

\* calculate_ev whose checks are off by the boundary: offered odds of 1.0 and
\* a fair probability of 0 or 1 pass
calculate_ev_lenient(offered_odds, fair_prob) ==
    IF RLt(offered_odds, One)
    THEN Raise("ValueError", "Offered odds must be greater than 1.0")
    ELSE IF ~(RLe(Zero, fair_prob) /\ RLe(fair_prob, One))
         THEN Raise("ValueError", "Fair probability must be between 0.0 and 1.0")
         ELSE LET payout == RSub(offered_odds, One)
                  ev_decimal == RSub(RMul(fair_prob, payout), RSub(One, fair_prob))
              IN  [kind |-> "ok", value |-> RMul(ev_decimal, R(100, 1))]

\* calculate_ev that takes the offered odds for the payout (stake included)
calculate_ev_gross(offered_odds, fair_prob) ==
    IF RLe(offered_odds, One)
    THEN Raise("ValueError", "Offered odds must be greater than 1.0")
    ELSE IF ~(RLt(Zero, fair_prob) /\ RLt(fair_prob, One))
         THEN Raise("ValueError", "Fair probability must be between 0.0 and 1.0")
         ELSE LET payout == offered_odds
                  ev_decimal == RSub(RMul(fair_prob, payout), RSub(One, fair_prob))
              IN  [kind |-> "ok", value |-> RMul(ev_decimal, R(100, 1))]

\* SharpEdge.calculate_ev(offered_odds, fair_prob)
calculate_ev(offered_odds, fair_prob) ==
    IF RLe(offered_odds, One)
    THEN Raise("ValueError", "Offered odds must be greater than 1.0")
    ELSE IF ~(RLt(Zero, fair_prob) /\ RLt(fair_prob, One))
         THEN Raise("ValueError", "Fair probability must be between 0.0 and 1.0")
         ELSE LET payout == RSub(offered_odds, One)
                  ev_decimal == RSub(RMul(fair_prob, payout), RSub(One, fair_prob))
              IN  [kind |-> "ok", value |-> RMul(ev_decimal, R(100, 1))]

\* PlayerPropsModel.calculate_ev(offered_odds, fair_prob)
props_calculate_ev(offered_odds, fair_prob) ==
    IF RLe(offered_odds, One)
    THEN Raise("ValueError", "Offered odds must be greater than 1.0")
    ELSE IF ~(RLt(Zero, fair_prob) /\ RLt(fair_prob, One))
         THEN Raise("ValueError", "Fair probability must be between 0.0 and 1.0")
         ELSE LET payout == RSub(offered_odds, One)
                  ev_decimal == RSub(RMul(fair_prob, payout), RSub(One, fair_prob))
                  ev_percentage == RMul(ev_decimal, R(100, 1))
              IN  [kind |-> "ok", value |-> ev_percentage]

\* _classify_book_type(book_name)
classify_book_type(book_name) ==
    IF book_name \in {"Pinnacle", "Circa", "BetOnline", "BookMaker"} THEN "sharp"
    ELSE IF book_name \in {"FanDuel", "DraftKings", "Caesars", "BetMGM"} THEN "recreational"
    ELSE "hybrid"

\* _calculate_comprehensive_ev whose thresholds are exclusive (> for >=)
calculate_comprehensive_ev_exclusive(offered_odds, fair_prob, fair_odds_decimal) ==
    LET ev == calculate_ev(offered_odds, fair_prob)
    IN  IF ~IsOk(ev) THEN ev
        ELSE LET ev_percentage == ev.value
                 ev_quality ==
                     IF RLt(R(3, 1), ev_percentage) THEN "excellent"
                     ELSE IF RLt(R(3, 2), ev_percentage) THEN "good"
                     ELSE IF RLt(R(1, 2), ev_percentage) THEN "marginal"
                     ELSE "poor"
             IN  [kind |-> "ok",
                  value |-> [ev_percentage |-> ev_percentage,
                             ev_quality |-> ev_quality,
                             odds_edge_percentage |->
                                 RMul(RSub(RDiv(offered_odds, fair_odds_decimal), One), R(100, 1)),
                             probability_edge |-> RSub(fair_prob, RDiv(One, offered_odds)),
                             offered_odds |-> offered_odds,
                             fair_odds |-> fair_odds_decimal,
                             implied_prob_offered |-> RDiv(One, offered_odds),
                             fair_probability |-> fair_prob]]

\* _calculate_comprehensive_ev whose odds edge is the difference of the offered
\* and the fair odds, not their ratio
calculate_comprehensive_ev_odds_difference(offered_odds, fair_prob, fair_odds_decimal) ==
    LET ev == calculate_ev(offered_odds, fair_prob)
    IN  IF ~IsOk(ev) THEN ev
        ELSE LET ev_percentage == ev.value
                 odds_edge == RMul(RSub(offered_odds, fair_odds_decimal), R(100, 1))
                 prob_edge == RSub(fair_prob, RDiv(One, offered_odds))
                 ev_quality ==
                     IF RLe(R(3, 1), ev_percentage) THEN "excellent"
                     ELSE IF RLe(R(3, 2), ev_percentage) THEN "good"
                     ELSE IF RLe(R(1, 2), ev_percentage) THEN "marginal"
                     ELSE "poor"
             IN  [kind |-> "ok",
                  value |-> [ev_percentage |-> ev_percentage,
                             ev_quality |-> ev_quality,
                             odds_edge_percentage |-> odds_edge,
                             probability_edge |-> prob_edge,
                             offered_odds |-> offered_odds,
                             fair_odds |-> fair_odds_decimal,
                             implied_prob_offered |-> RDiv(One, offered_odds),
                             fair_probability |-> fair_prob]]

\* _calculate_comprehensive_ev(offered_odds, fair_prob, fair_odds_decimal);
\* offered_odds > 1 once calculate_ev has returned, so 1 / offered_odds is defined
calculate_comprehensive_ev(offered_odds, fair_prob, fair_odds_decimal) ==
    LET ev == calculate_ev(offered_odds, fair_prob)
    IN  IF ~IsOk(ev) THEN ev
        ELSE LET ev_percentage == ev.value
                 odds_edge == RMul(RSub(RDiv(offered_odds, fair_odds_decimal), One), R(100, 1))
                 prob_edge == RSub(fair_prob, RDiv(One, offered_odds))
                 ev_quality ==
                     IF RLe(R(3, 1), ev_percentage) THEN "excellent"
                     ELSE IF RLe(R(3, 2), ev_percentage) THEN "good"
                     ELSE IF RLe(R(1, 2), ev_percentage) THEN "marginal"
                     ELSE "poor"
             IN  [kind |-> "ok",
                  value |-> [ev_percentage |-> ev_percentage,
                             ev_quality |-> ev_quality,
                             odds_edge_percentage |-> odds_edge,
                             probability_edge |-> prob_edge,
                             offered_odds |-> offered_odds,
                             fair_odds |-> fair_odds_decimal,
                             implied_prob_offered |-> RDiv(One, offered_odds),
                             fair_probability |-> fair_prob]]

(***************************************************************************)
(* SharpEdge: the consensus engine.                                        *)
(***************************************************************************)

\* the books whose quote passes the loop body of get_fair_odds_and_ev: in the
\* weight table, and devig raises neither ValueError nor ZeroDivisionError
BooksDevigged(odds_data) ==
    {book \in DOMAIN odds_data :
        book \in DOMAIN weights /\ IsOk(devig_multiplicative(odds_data[book]))}

\* data.get("liquidity", 0)
GetLiquidity(data) == IF "liquidity" \in DOMAIN data THEN data.liquidity ELSE 0

\* the gate of the exchange loop with > for >=
ExchangesGatedStrictly(exchange_data) ==
    {exchange \in DOMAIN exchange_data :
        exchange \in DOMAIN exchange_weights
        /\ GetLiquidity(exchange_data[exchange]) > liquidity_threshold}

\* the exchanges that pass the gate of the exchange loop
ExchangesGated(exchange_data) ==
    {exchange \in DOMAIN exchange_data :
        exchange \in DOMAIN exchange_weights
        /\ GetLiquidity(exchange_data[exchange]) >= liquidity_threshold}

\* the gated exchanges whose quote devigs
ExchangesDevigged(exchange_data) ==
    {exchange \in ExchangesGated(exchange_data) :
        /\ "odds" \in DOMAIN exchange_data[exchange]
        /\ IsOk(devig_multiplicative(exchange_data[exchange].odds))}

\* the tail of get_fair_odds_and_ev and of the spread and totals analyses:
\* fair probability, fair decimal odds, fair American odds
FairOdds(market_probs) ==
    LET fp == calculate_fair_probability(market_probs)
    IN  IF ~IsOk(fp) THEN fp
        ELSE IF IsZero(fp.value) THEN Raise("ZeroDivisionError", "float division by zero")
        ELSE LET fair_odds_decimal == RDiv(One, fp.value)
                 am == decimal_to_american(fair_odds_decimal)
             IN  IF ~IsOk(am) THEN am
                 ELSE [kind |-> "ok",
                       fair_prob |-> fp.value,
                       fair_odds_decimal |-> fair_odds_decimal,
                       fair_odds_american |-> am.value]

\* get_fair_odds_and_ev that counts a book of the weight table before its
\* quote is devigged
get_fair_odds_and_ev_counting_quoted(odds_data, exchange_data, offered_odds) ==
    LET books == SetToSeq(BooksDevigged(odds_data))
        exchanges == SetToSeq(ExchangesDevigged(exchange_data))
        market_probs ==
            [i \in 1..Len(books) |->
                [prob |-> devig_multiplicative(odds_data[books[i]]).probs[1],
                 weight |-> weights[books[i]]]]
            \o [i \in 1..Len(exchanges) |->
                [prob |-> devig_multiplicative(exchange_data[exchanges[i]].odds).probs[1],
                 weight |-> exchange_weights[exchanges[i]]]]
        book_contributions ==
            [c \in BooksDevigged(odds_data) \cup ExchangesDevigged(exchange_data) |->
                IF c \in ExchangesDevigged(exchange_data)
                THEN [probability |-> devig_multiplicative(exchange_data[c].odds).probs[1],
                      weight |-> exchange_weights[c],
                      liquidity |-> GetLiquidity(exchange_data[c]),
                      original_odds |-> exchange_data[c].odds,
                      book_type |-> "exchange"]
                ELSE LET devigged == devig_multiplicative(odds_data[c]).probs
                     IN  [probability |-> devigged[1],
                          weight |-> weights[c],
                          original_odds |-> odds_data[c],
                          devigged_odds |-> <<RDiv(One, devigged[1]), RDiv(One, devigged[2])>>,
                          book_type |-> classify_book_type(c)]]
        fair == FairOdds(market_probs)
    IN  IF \E exchange \in ExchangesGated(exchange_data) :
               "odds" \notin DOMAIN exchange_data[exchange]
        THEN Raise("KeyError", "odds")
        ELSE IF market_probs = <<>> THEN Raise("ValueError", "No valid odds data found")
        ELSE IF ~IsOk(fair) THEN fair
        ELSE LET ev == IF offered_odds = <<>> \/ IsZero(offered_odds[1])
                       THEN [kind |-> "ok", value |-> <<>>]
                       ELSE calculate_comprehensive_ev(offered_odds[1], fair.fair_prob,
                                                       fair.fair_odds_decimal)
             IN  IF ~IsOk(ev) THEN ev
                 ELSE [kind |-> "ok",
                       fair_prob |-> fair.fair_prob,
                       fair_odds_decimal |-> fair.fair_odds_decimal,
                       fair_odds_american |-> fair.fair_odds_american,
                       ev_analysis |-> IF ev.value = <<>> THEN <<>> ELSE <<ev.value>>,
                       books_used |-> Cardinality(DOMAIN odds_data \cap DOMAIN weights),
                       exchanges_used |-> Len(exchanges),
                       book_contributions |-> book_contributions]

\* get_fair_odds_and_ev(odds_data, exchange_data, offered_odds):
\* exchange_data is a dict, empty for None; offered_odds is <<>> for None
get_fair_odds_and_ev(odds_data, exchange_data, offered_odds) ==
    LET books == SetToSeq(BooksDevigged(odds_data))
        exchanges == SetToSeq(ExchangesDevigged(exchange_data))
        market_probs ==
            [i \in 1..Len(books) |->
                [prob |-> devig_multiplicative(odds_data[books[i]]).probs[1],
                 weight |-> weights[books[i]]]]
            \o [i \in 1..Len(exchanges) |->
                [prob |-> devig_multiplicative(exchange_data[exchanges[i]].odds).probs[1],
                 weight |-> exchange_weights[exchanges[i]]]]
        book_contributions ==
            [c \in BooksDevigged(odds_data) \cup ExchangesDevigged(exchange_data) |->
                IF c \in ExchangesDevigged(exchange_data)
                THEN [probability |-> devig_multiplicative(exchange_data[c].odds).probs[1],
                      weight |-> exchange_weights[c],
                      liquidity |-> GetLiquidity(exchange_data[c]),
                      original_odds |-> exchange_data[c].odds,
                      book_type |-> "exchange"]
                ELSE LET devigged == devig_multiplicative(odds_data[c]).probs
                     IN  [probability |-> devigged[1],
                          weight |-> weights[c],
                          original_odds |-> odds_data[c],
                          devigged_odds |-> <<RDiv(One, devigged[1]), RDiv(One, devigged[2])>>,
                          book_type |-> classify_book_type(c)]]
        fair == FairOdds(market_probs)
    IN  IF \E exchange \in ExchangesGated(exchange_data) :
               "odds" \notin DOMAIN exchange_data[exchange]
        THEN Raise("KeyError", "odds")
        ELSE IF market_probs = <<>> THEN Raise("ValueError", "No valid odds data found")
        ELSE IF ~IsOk(fair) THEN fair
        ELSE LET ev == IF offered_odds = <<>> \/ IsZero(offered_odds[1])
                       THEN [kind |-> "ok", value |-> <<>>]
                       ELSE calculate_comprehensive_ev(offered_odds[1], fair.fair_prob,
                                                       fair.fair_odds_decimal)
             IN  IF ~IsOk(ev) THEN ev
                 ELSE [kind |-> "ok",
                       fair_prob |-> fair.fair_prob,
                       fair_odds_decimal |-> fair.fair_odds_decimal,
                       fair_odds_american |-> fair.fair_odds_american,
                       ev_analysis |-> IF ev.value = <<>> THEN <<>> ELSE <<ev.value>>,
                       books_used |-> Len(books),
                       exchanges_used |-> Len(exchanges),
                       book_contributions |-> book_contributions]

\* analyze_spread_market(spreads_data): spread_info is a dict that may lack
\* "home_odds" or "away_odds"; the KeyError of a missing key is not caught
analyze_spread_market(spreads_data) ==
    LET weighted == {book \in DOMAIN spreads_data : book \in DOMAIN weights}
        quote(book) == <<spreads_data[book]["home_odds"], spreads_data[book]["away_odds"]>>
        books == SetToSeq({book \in weighted : IsOk(devig_multiplicative(quote(book)))})
        market_probs ==
            [i \in 1..Len(books) |->
                [prob |-> devig_multiplicative(quote(books[i])).probs[1],
                 weight |-> weights[books[i]]]]
        fair == FairOdds(market_probs)
    IN  IF \E book \in weighted :
               ~({"home_odds", "away_odds"} \subseteq DOMAIN spreads_data[book])
        THEN Raise("KeyError", "home_odds or away_odds")
        ELSE IF market_probs = <<>> THEN Raise("ValueError", "No valid spread odds data found")
        ELSE IF ~IsOk(fair) THEN fair
        ELSE [kind |-> "ok",
              fair_prob |-> fair.fair_prob,
              fair_odds_decimal |-> fair.fair_odds_decimal,
              fair_odds_american |-> fair.fair_odds_american,
              books_used |-> Len(books),
              exchanges_used |-> 0]

\* analyze_totals_market(totals_data): totals_info is a dict that may lack
\* "over_odds" or "under_odds"; the KeyError of a missing key is not caught
analyze_totals_market(totals_data) ==
    LET weighted == {book \in DOMAIN totals_data : book \in DOMAIN weights}
        quote(book) == <<totals_data[book]["over_odds"], totals_data[book]["under_odds"]>>
        books == SetToSeq({book \in weighted : IsOk(devig_multiplicative(quote(book)))})
        market_probs ==
            [i \in 1..Len(books) |->
                [prob |-> devig_multiplicative(quote(books[i])).probs[1],
                 weight |-> weights[books[i]]]]
        fair == FairOdds(market_probs)
    IN  IF \E book \in weighted :
               ~({"over_odds", "under_odds"} \subseteq DOMAIN totals_data[book])
        THEN Raise("KeyError", "over_odds or under_odds")
        ELSE IF market_probs = <<>> THEN Raise("ValueError", "No valid totals odds data found")
        ELSE IF ~IsOk(fair) THEN fair
        ELSE [kind |-> "ok",
              fair_prob |-> fair.fair_prob,
              fair_odds_decimal |-> fair.fair_odds_decimal,
              fair_odds_american |-> fair.fair_odds_american,
              books_used |-> Len(books),
              exchanges_used |-> 0]

(***************************************************************************)
(* NFLWeightingEngine.  The engine's tables are set in __init__ and no     *)
(* method assigns them; get_nfl_weights without a list of books hands the  *)
(* caller the primary table of the market itself, not a copy.              *)
(***************************************************************************)
\* nfl_weights_primary as __init__ sets it
nfl_weights_primary_init ==
    [moneyline |-> ("Pinnacle" :> R(33, 100) @@ "Circa" :> R(28, 100)
                    @@ "BetOnline" :> R(19, 100) @@ "DraftKings" :> R(9, 100)
                    @@ "FanDuel" :> R(5, 100) @@ "BetRivers" :> R(4, 100)
                    @@ "Bovada" :> R(2, 100)),
     spreads |-> ("Pinnacle" :> R(35, 100) @@ "Circa" :> R(30, 100)
                  @@ "BetOnline" :> R(20, 100) @@ "BookMaker" :> R(8, 100)
                  @@ "DraftKings" :> R(4, 100) @@ "FanDuel" :> R(3, 100)),
     totals |-> ("Pinnacle" :> R(43, 100) @@ "Circa" :> R(24, 100)
                 @@ "BetOnline" :> R(19, 100) @@ "DraftKings" :> R(10, 100)
                 @@ "BetRivers" :> R(4, 100))]

nfl_weights_fallback ==
    [moneyline |-> ("Pinnacle" :> R(25, 100) @@ "Circa" :> R(22, 100)
                    @@ "BetOnline" :> R(15, 100) @@ "DraftKings" :> R(8, 100)
                    @@ "FanDuel" :> R(5, 100) @@ "BetRivers" :> R(4, 100)
                    @@ "Bovada" :> R(3, 100) @@ "BetMGM" :> R(6, 100)
                    @@ "Caesars" :> R(5, 100) @@ "BetUS" :> R(4, 100)
                    @@ "MyBookie" :> R(3, 100)),
     spreads |-> ("Pinnacle" :> R(30, 100) @@ "Circa" :> R(25, 100)
                  @@ "BetOnline" :> R(12, 100) @@ "BookMaker" :> R(8, 100)
                  @@ "DraftKings" :> R(8, 100) @@ "BetMGM" :> R(7, 100)
                  @@ "FanDuel" :> R(5, 100) @@ "BetRivers" :> R(3, 100)
                  @@ "Caesars" :> R(2, 100)),
     totals |-> ("Pinnacle" :> R(32, 100) @@ "Circa" :> R(18, 100)
                 @@ "BetOnline" :> R(15, 100) @@ "DraftKings" :> R(10, 100)
                 @@ "BetRivers" :> R(5, 100) @@ "FanDuel" :> R(8, 100)
                 @@ "BetMGM" :> R(6, 100) @@ "Bovada" :> R(4, 100)
                 @@ "Caesars" :> R(2, 100))]

min_books_required == [moneyline |-> 3, spreads |-> 2, totals |-> 2]

never_use_books == {"WynnBET", "LowVig.ag"}

\* normalize_book_name(api_book_name)
normalize_book_name(api_book_name) ==
    CASE api_book_name = "BetOnline.ag" -> "BetOnline"
      [] api_book_name = "MyBookie.ag" -> "MyBookie"
      [] api_book_name = "Caesars Sportsbook" -> "Caesars"
      [] api_book_name = "BetMGM Sportsbook" -> "BetMGM"
      [] OTHER -> api_book_name

\* the elements of a list
Range(list) == {list[i] : i \in 1..Len(list)}

\* sum(table.values())
RECURSIVE SumValues(_)
SumValues(table) ==
    IF DOMAIN table = {} THEN Zero
    ELSE LET book == CHOOSE b \in DOMAIN table : TRUE
         IN  RAdd(table[book], SumValues([b \in DOMAIN table \ {book} |-> table[b]]))

\* get_available_books(market_type, available_book_names), for a market type
\* of the tables: the pair (available_primary, available_fallback)
get_available_books(market_type, available_book_names) ==
    LET primary_weights == nfl_weights_primary[market_type]
        fallback_weights == nfl_weights_fallback[market_type]
        normalized_available ==
            [i \in 1..Len(available_book_names) |-> normalize_book_name(available_book_names[i])]
        available_primary ==
            [book \in {b \in DOMAIN primary_weights : b \in Range(normalized_available)}
                |-> primary_weights[book]]
        available_fallback ==
            [book \in {b \in DOMAIN fallback_weights :
                          b \in Range(normalized_available) /\ b \notin never_use_books}
                |-> fallback_weights[book]]
    IN  <<available_primary, available_fallback>>

\* the branch get_nfl_weights takes, with > in place of >=
selected_tier_strict(market_type, available_book_names) ==
    LET available == get_available_books(market_type, available_book_names)
        min_required == min_books_required[market_type]
    IN  IF Cardinality(DOMAIN available[1]) > min_required THEN "primary"
        ELSE IF Cardinality(DOMAIN available[2]) > min_required THEN "fallback"
        ELSE "emergency"

\* the branch get_nfl_weights takes: its if / elif / else on the book counts
selected_tier(market_type, available_book_names) ==
    LET available == get_available_books(market_type, available_book_names)
        min_required == min_books_required[market_type]
    IN  IF Cardinality(DOMAIN available[1]) >= min_required THEN "primary"
        ELSE IF Cardinality(DOMAIN available[2]) >= min_required THEN "fallback"
        ELSE "emergency"

\* {book: weight / total_weight for book, weight in table.items()}
normalized(table) ==
    LET total_weight == SumValues(table)
    IN  [book \in DOMAIN table |-> RDiv(table[book], total_weight)]

\* the emergency list, built without the never-use filter
emergency_books_unfiltered(available_book_names) ==
    available_book_names

\* emergency_books: the available names whose normalized name is not on the
\* never-use list, as a list (a name given twice stays twice)
emergency_books(available_book_names) ==
    SelectSeq(available_book_names,
              LAMBDA book : normalize_book_name(book) \notin never_use_books)

\* get_nfl_weights(market_type, available_book_names); available_book_names is
\* <<>> for None and <<list>> for a list.  A primary or fallback tier is only
\* selected with min_required >= 2 books of positive weight, so total_weight # 0
get_nfl_weights(market_type, available_book_names) ==
    IF available_book_names = <<>>
    THEN [kind |-> "ok",
          value |-> IF market_type \in DOMAIN nfl_weights_primary
                    THEN nfl_weights_primary[market_type]
                    ELSE nfl_weights_primary["moneyline"]]
    ELSE IF market_type \notin DOMAIN nfl_weights_primary
    THEN Raise("KeyError", market_type)
    ELSE LET names == available_book_names[1]
             available == get_available_books(market_type, names)
             tier == selected_tier(market_type, names)
             emergency == emergency_books(names)
         IN  CASE tier = "primary" ->
                    [kind |-> "ok", value |-> normalized(available[1])]
               [] tier = "fallback" ->
                    [kind |-> "ok", value |-> normalized(available[2])]
               [] OTHER ->
                    IF emergency # <<>>
                    THEN LET equal_weight == RDiv(One, R(Len(emergency), 1))
                         IN  [kind |-> "ok",
                              value |-> [book \in {normalize_book_name(emergency[i]) :
                                                      i \in 1..Len(emergency)}
                                            |-> equal_weight]]
                    ELSE [kind |-> "ok", value |-> <<>>]

(***************************************************************************)
(* PlayerPropsModel.                                                       *)
(***************************************************************************)

\* PlayerPropsModel.prop_weights
prop_weights ==
    "FanDuel" :> R(28, 100) @@ "Circa" :> R(22, 100) @@ "Pinnacle" :> R(12, 100)
    @@ "Caesars" :> R(12, 100) @@ "PropBuilder" :> R(10, 100)
    @@ "DraftKings" :> R(8, 100) @@ "BetMGM" :> R(6, 100) @@ "BetOnline" :> R(2, 100)
    @@ "BookMaker" :> R(0, 100) @@ "WynnBET" :> R(0, 100)

\* PlayerPropsModel.prop_types
prop_types ==
    "passing_yards" :> [type |-> "over_under", unit |-> "yards", variance |-> "medium"]
    @@ "passing_touchdowns" :> [type |-> "over_under", unit |-> "touchdowns", variance |-> "high"]
    @@ "rushing_yards" :> [type |-> "over_under", unit |-> "yards", variance |-> "high"]
    @@ "rushing_touchdowns" :> [type |-> "over_under", unit |-> "touchdowns", variance |-> "high"]
    @@ "receiving_yards" :> [type |-> "over_under", unit |-> "yards", variance |-> "high"]
    @@ "receiving_touchdowns" :>
           [type |-> "over_under", unit |-> "touchdowns", variance |-> "very_high"]
    @@ "receptions" :> [type |-> "over_under", unit |-> "receptions", variance |-> "medium"]
    @@ "points" :> [type |-> "over_under", unit |-> "points", variance |-> "high"]
    @@ "rebounds" :> [type |-> "over_under", unit |-> "rebounds", variance |-> "medium"]
    @@ "assists" :> [type |-> "over_under", unit |-> "assists", variance |-> "medium"]
    @@ "first_touchdown" :> [type |-> "yes_no", unit |-> "boolean", variance |-> "very_high"]
    @@ "anytime_touchdown" :> [type |-> "yes_no", unit |-> "boolean", variance |-> "high"]

\* self.prop_types.get(prop_type, {"variance": "unknown"})
prop_characteristics(prop_type) ==
    IF prop_type \in DOMAIN prop_types THEN prop_types[prop_type]
    ELSE [variance |-> "unknown"]

\* a list of numbers with x inserted before the first greater one
RECURSIVE InsertSorted(_, _)
InsertSorted(x, list) ==
    IF list = <<>> THEN <<x>>
    ELSE IF RLe(x, Head(list)) THEN <<x>> \o list
    ELSE <<Head(list)>> \o InsertSorted(x, Tail(list))

\* sorted(list)
RECURSIVE Sorted(_)
Sorted(list) ==
    IF list = <<>> THEN <<>> ELSE InsertSorted(Head(list), Sorted(Tail(list)))

\* statistics.median(lines) of a non-empty list
median(lines) ==
    LET data == Sorted(lines)
        n == Len(data)
    IN  IF n % 2 = 1 THEN data[(n \div 2) + 1]
        ELSE RDiv(RAdd(data[n \div 2], data[(n \div 2) + 1]), R(2, 1))

\* the sum of a list of numbers
RECURSIVE SumList(_)
SumList(list) == IF list = <<>> THEN Zero ELSE RAdd(Head(list), SumList(Tail(list)))

\* the books of calculate_consensus_line's loop that pass its condition
LineBooks(prop_data) ==
    {book_name \in DOMAIN prop_data :
        /\ book_name \in DOMAIN prop_weights
        /\ "line" \in DOMAIN prop_data[book_name]
        /\ RLt(Zero, prop_weights[book_name])}

\* calculate_consensus_line that divides by the number of weighted books
calculate_consensus_line_by_count(prop_data) ==
    LET books == SetToSeq(LineBooks(prop_data))
        weighted_lines ==
            [i \in 1..Len(books) |-> RMul(prop_data[books[i]].line, prop_weights[books[i]])]
        all_books == SetToSeq({b \in DOMAIN prop_data : "line" \in DOMAIN prop_data[b]})
        lines == [i \in 1..Len(all_books) |-> prop_data[all_books[i]].line]
    IN  IF weighted_lines = <<>>
        THEN IF lines # <<>> THEN [kind |-> "ok", value |-> median(lines)]
             ELSE Raise("ValueError", "No valid lines found for consensus calculation")
        ELSE [kind |-> "ok", value |-> RDiv(SumList(weighted_lines), R(Len(books), 1))]

\* PlayerPropsModel.calculate_consensus_line(prop_data)
calculate_consensus_line(prop_data) ==
    LET books == SetToSeq(LineBooks(prop_data))
        weighted_lines ==
            [i \in 1..Len(books) |-> RMul(prop_data[books[i]].line, prop_weights[books[i]])]
        total_weight == SumList([i \in 1..Len(books) |-> prop_weights[books[i]]])
        all_books == SetToSeq({b \in DOMAIN prop_data : "line" \in DOMAIN prop_data[b]})
        lines == [i \in 1..Len(all_books) |-> prop_data[all_books[i]].line]
    IN  IF weighted_lines = <<>> \/ IsZero(total_weight)
        THEN IF lines # <<>> THEN [kind |-> "ok", value |-> median(lines)]
             ELSE Raise("ValueError", "No valid lines found for consensus calculation")
        ELSE [kind |-> "ok", value |-> RDiv(SumList(weighted_lines), total_weight)]

\* the books of the analyses' loops that are not skipped: in prop_weights with
\* a weight other than 0
PropWeightedBooks(prop_data) ==
    {book_name \in DOMAIN prop_data :
        book_name \in DOMAIN prop_weights /\ ~IsZero(prop_weights[book_name])}

\* the weighted books whose try block completes: both odds keys are present
\* (no KeyError) and devig raises neither ValueError nor ZeroDivisionError
PropBooksDevigged(prop_data, side_a, side_b) ==
    {book_name \in PropWeightedBooks(prop_data) :
        /\ {side_a, side_b} \subseteq DOMAIN prop_data[book_name]
        /\ IsOk(props_devig_multiplicative(
                    <<prop_data[book_name][side_a], prop_data[book_name][side_b]>>))}

\* the market_probs the loop of an analysis builds from the list books
MarketProbsOf(books, prop_data, side_a, side_b) ==
    [i \in 1..Len(books) |->
        [prob |-> props_devig_multiplicative(
                      <<prop_data[books[i]][side_a], prop_data[books[i]][side_b]>>).probs[1],
         weight |-> prop_weights[books[i]]]]

PropMarketProbs(prop_data, side_a, side_b) ==
    MarketProbsOf(SetToSeq(PropBooksDevigged(prop_data, side_a, side_b)),
                  prop_data, side_a, side_b)

\* the fair odds of an analysis once both American odds are converted
PropFairRecord(fair_prob, total_weight, american, other_american) ==
    IF ~IsOk(american) THEN american
    ELSE IF ~IsOk(other_american) THEN other_american
    ELSE [kind |-> "ok",
          fair_prob |-> fair_prob,
          fair_other_prob |-> RSub(One, fair_prob),
          fair_odds |-> RDiv(One, fair_prob),
          fair_other_odds |-> RDiv(One, RSub(One, fair_prob)),
          american |-> american.value,
          other_american |-> other_american.value,
          total_weight_used |-> total_weight]

\* the fair decimal odds of both sides and their American odds
PropFairOddsOf(fair_prob, total_weight) ==
    IF IsZero(fair_prob) \/ IsZero(RSub(One, fair_prob))
    THEN Raise("ZeroDivisionError", "float division by zero")
    ELSE PropFairRecord(fair_prob, total_weight,
                        props_decimal_to_american(RDiv(One, fair_prob)),
                        props_decimal_to_american(RDiv(One, RSub(One, fair_prob))))

\* the tail of the analyses: the weighted fair probability of side A, the
\* fair decimal odds of both sides and their American odds
PropFairOdds(market_probs) ==
    IF IsZero(SumWeight(market_probs))
    THEN Raise("ZeroDivisionError", "float division by zero")
    ELSE PropFairOddsOf(RDiv(SumProbWeight(market_probs), SumWeight(market_probs)),
                        SumWeight(market_probs))

\* analyze_over_under_prop from its loop on: consensus_line is what
\* calculate_consensus_line returned or raised
over_under_result(consensus_line, market_probs, fair, player_name, prop_type) ==
    IF ~IsOk(consensus_line) THEN consensus_line
    ELSE IF market_probs = <<>>
    THEN Raise("ValueError", "No valid prop odds found from weighted books")
    ELSE IF ~IsOk(fair) THEN fair
    ELSE [kind |-> "ok",
          player |-> player_name,
          prop_type |-> prop_type,
          consensus_line |-> consensus_line.value,
          fair_over_prob |-> fair.fair_prob,
          fair_under_prob |-> fair.fair_other_prob,
          fair_over_odds_decimal |-> fair.fair_odds,
          fair_under_odds_decimal |-> fair.fair_other_odds,
          fair_over_odds_american |-> fair.american,
          fair_under_odds_american |-> fair.other_american,
          books_used |-> Len(market_probs),
          total_weight_used |-> fair.total_weight_used,
          prop_characteristics |-> prop_characteristics(prop_type),
          weighting_scheme |-> "prop_specialized"]

\* analyze_over_under_prop after its check of the number of books
over_under_analysis(prop_data, player_name, prop_type) ==
    over_under_result(calculate_consensus_line(prop_data),
                      PropMarketProbs(prop_data, "over_odds", "under_odds"),
                      PropFairOdds(PropMarketProbs(prop_data, "over_odds", "under_odds")),
                      player_name, prop_type)

\* the error of an analysis given fewer books than min_books
NeedAtLeast ==
    Raise("ValueError", "Need at least " \o ToString(min_books) \o " books for analysis")

\* analyze_over_under_prop that counts the books after the consensus line
analyze_over_under_prop_late_check(prop_data, player_name, prop_type) ==
    IF ~IsOk(calculate_consensus_line(prop_data)) THEN calculate_consensus_line(prop_data)
    ELSE IF Cardinality(DOMAIN prop_data) < min_books THEN NeedAtLeast
    ELSE over_under_analysis(prop_data, player_name, prop_type)

\* PlayerPropsModel.analyze_over_under_prop(prop_data, player_name, prop_type)
analyze_over_under_prop(prop_data, player_name, prop_type) ==
    IF Cardinality(DOMAIN prop_data) < min_books THEN NeedAtLeast
    ELSE over_under_analysis(prop_data, player_name, prop_type)

\* analyze_yes_no_prop from its loop on
yes_no_result(market_probs, fair, player_name, prop_type) ==
    IF market_probs = <<>>
    THEN Raise("ValueError", "No valid prop odds found from weighted books")
    ELSE IF ~IsOk(fair) THEN fair
    ELSE [kind |-> "ok",
          player |-> player_name,
          prop_type |-> prop_type,
          fair_yes_prob |-> fair.fair_prob,
          fair_no_prob |-> fair.fair_other_prob,
          fair_yes_odds_decimal |-> fair.fair_odds,
          fair_no_odds_decimal |-> fair.fair_other_odds,
          fair_yes_odds_american |-> fair.american,
          fair_no_odds_american |-> fair.other_american,
          books_used |-> Len(market_probs),
          total_weight_used |-> fair.total_weight_used,
          prop_characteristics |-> prop_characteristics(prop_type),
          weighting_scheme |-> "prop_specialized"]

\* PlayerPropsModel.analyze_yes_no_prop(prop_data, player_name, prop_type)
analyze_yes_no_prop(prop_data, player_name, prop_type) ==
    IF Cardinality(DOMAIN prop_data) < min_books THEN NeedAtLeast
    ELSE yes_no_result(PropMarketProbs(prop_data, "yes_odds", "no_odds"),
                       PropFairOdds(PropMarketProbs(prop_data, "yes_odds", "no_odds")),
                       player_name, prop_type)

\* the two sides of a yes/no prop and of an over/under prop, in the order the
\* loops check them: the bet type, the key of the book's odds, the keys of the
\* analysis' fair probability and fair decimal odds
YesNoSides ==
    << [bet_type |-> "YES", odds |-> "yes_odds", prob |-> "fair_yes_prob",
        fair_odds |-> "fair_yes_odds_decimal"],
       [bet_type |-> "NO", odds |-> "no_odds", prob |-> "fair_no_prob",
        fair_odds |-> "fair_no_odds_decimal"] >>
OverUnderSides ==
    << [bet_type |-> "OVER", odds |-> "over_odds", prob |-> "fair_over_prob",
        fair_odds |-> "fair_over_odds_decimal"],
       [bet_type |-> "UNDER", odds |-> "under_odds", prob |-> "fair_under_prob",
        fair_odds |-> "fair_under_odds_decimal"] >>

\* self.prop_weights.get(book_name, 0)
book_weight(book_name) ==
    IF book_name \in DOMAIN prop_weights THEN prop_weights[book_name] ELSE Zero

\* book_tier with a weight of 0 counted as weighted
book_tier_from_zero(weight) ==
    IF RLe(R(15, 100), weight) THEN "Sharp"
    ELSE IF RLe(Zero, weight) THEN "Recreational"
    ELSE "Unweighted"

\* book_tier of find_prop_ev_opportunities
book_tier(weight) ==
    IF RLe(R(15, 100), weight) THEN "Sharp"
    ELSE IF RLt(Zero, weight) THEN "Recreational"
    ELSE "Unweighted"

\* the condition of the yes/no branch: the prop type is a touchdown prop or
\* the first entry of prop_data has yes_odds
is_yes_no(analysis, prop_data) ==
    \/ analysis.prop_type \in {"first_touchdown", "anytime_touchdown"}
    \/ /\ DOMAIN prop_data # {}
       /\ "yes_odds" \in DOMAIN prop_data[SetToSeq(DOMAIN prop_data)[1]]

\* the (book, side) pairs in the order the loop visits them
Candidates(books, sides) ==
    [i \in 1..(2 * Len(books)) |->
        [book_name |-> books[(i + 1) \div 2],
         side |-> sides[IF i % 2 = 1 THEN 1 ELSE 2]]]

\* self.calculate_ev(data[side.odds], analysis[side.prob])
side_ev(data, analysis, side) ==
    IF side.odds \notin DOMAIN data THEN Raise("KeyError", side.odds)
    ELSE IF side.prob \notin DOMAIN analysis THEN Raise("KeyError", side.prob)
    ELSE props_calculate_ev(data[side.odds], analysis[side.prob])

\* what calculate_ev returns or raises for each candidate
CandidateEvs(cands, analysis, prop_data) ==
    [i \in DOMAIN cands |-> side_ev(prop_data[cands[i].book_name], analysis, cands[i].side)]

\* the dict appended for a candidate; an over/under prop adds the line
opportunity(cand, ev, analysis, data, yes_no) ==
    [player |-> analysis.player,
     prop_type |-> analysis.prop_type,
     bet_type |-> cand.side.bet_type,
     book_name |-> cand.book_name,
     book_tier |-> book_tier(book_weight(cand.book_name)),
     book_weight |-> book_weight(cand.book_name),
     offered_odds |-> data[cand.side.odds],
     fair_odds |-> analysis[cand.side.fair_odds],
     fair_prob |-> analysis[cand.side.prob],
     ev_percentage |-> ev,
     variance_level |-> analysis.prop_characteristics.variance]
    @@ (IF yes_no THEN <<>> ELSE [line |-> analysis.consensus_line])

\* the list opportunities after the first n candidates, none of which raised
RECURSIVE Appended(_, _, _, _, _, _, _)
Appended(cands, evs, analysis, prop_data, min_ev, yes_no, n) ==
    IF n = 0 THEN <<>>
    ELSE IF RLe(min_ev, evs[n].value)
    THEN Append(Appended(cands, evs, analysis, prop_data, min_ev, yes_no, n - 1),
                opportunity(cands[n], evs[n].value, analysis,
                            prop_data[cands[n].book_name], yes_no))
    ELSE Appended(cands, evs, analysis, prop_data, min_ev, yes_no, n - 1)

\* a list sorted by ev_percentage from highest to lowest, with x inserted
\* behind the entries of at least its ev_percentage
RECURSIVE InsertByEv(_, _)
InsertByEv(x, list) ==
    IF list = <<>> THEN <<x>>
    ELSE IF RLt(Head(list).ev_percentage, x.ev_percentage) THEN <<x>> \o list
    ELSE <<Head(list)>> \o InsertByEv(x, Tail(list))

\* opportunities left in the order they were appended
opportunities_unsorted(opportunities) == opportunities

\* opportunities.sort(key=lambda x: x['ev_percentage'], reverse=True): a
\* stable sort, equal entries keep the order they were appended in
RECURSIVE sort_by_ev(_)
sort_by_ev(opportunities) ==
    IF opportunities = <<>> THEN <<>>
    ELSE InsertByEv(opportunities[Len(opportunities)],
                    sort_by_ev(SubSeq(opportunities, 1, Len(opportunities) - 1)))

\* the search once every candidate's calculate_ev is known: the first
\* exception leaves the method, otherwise the sorted list is returned
search_result(cands, evs, analysis, prop_data, min_ev, yes_no) ==
    IF \E i \in DOMAIN evs : ~IsOk(evs[i])
    THEN evs[CHOOSE i \in DOMAIN evs :
                 ~IsOk(evs[i]) /\ \A j \in 1..(i - 1) : IsOk(evs[j])]
    ELSE [kind |-> "ok",
          value |-> sort_by_ev(Appended(cands, evs, analysis, prop_data, min_ev,
                                        yes_no, Len(cands)))]

\* the loop of one branch over the candidates cands
search(cands, analysis, prop_data, min_ev, yes_no) ==
    search_result(cands, CandidateEvs(cands, analysis, prop_data), analysis, prop_data,
                  min_ev, yes_no)

\* PlayerPropsModel.find_prop_ev_opportunities(analysis, prop_data, min_ev)
find_prop_ev_opportunities(analysis, prop_data, min_ev) ==
    IF is_yes_no(analysis, prop_data)
    THEN search(Candidates(SetToSeq(DOMAIN prop_data), YesNoSides), analysis, prop_data,
                min_ev, TRUE)
    ELSE search(Candidates(SetToSeq(DOMAIN prop_data), OverUnderSides), analysis,
                prop_data, min_ev, FALSE)

(***************************************************************************)
(* The inputs of the calls.                                                *)
(***************************************************************************)

\* decimal odds a caller may quote: valid ones (> 1), and the invalid 1/2,
\* 0, -2 and 1
OddsLadder ==
    <<R(9, 5), R(11, 5), R(1, 2), R(0, 1), R(-2, 1), R(191, 100), R(1, 1), R(3, 1)>>

\* how many entries of OddsLadder the calls of the consensus engine draw from
NumOdds == 5

OddsIdx == 1..(IF NumOdds < Len(OddsLadder) THEN NumOdds ELSE Len(OddsLadder))

\* a quote is drawn by the places of its odds in OddsLadder (0: the odds 2.0):
\* two sides, or (malformed) one side or three
QuoteIdx == {<<i, j>> : i \in OddsIdx, j \in OddsIdx} \cup {<<0>>, <<0, 0, 0>>}

\* the quotes given to devig_multiplicative directly: of the whole ladder
DevigQuoteIdx ==
    {<<i, j>> : i \in 1..Len(OddsLadder), j \in 1..Len(OddsLadder)} \cup QuoteIdx

\* the quote drawn by ix: a tuple of decimal odds
QuoteOf(ix) == [k \in 1..Len(ix) |-> IF ix[k] = 0 THEN R(2, 1) ELSE OddsLadder[ix[k]]]

\* a quote: a tuple of decimal odds
Quotes == {QuoteOf(ix) : ix \in QuoteIdx}

\* an optional quote, drawn by an optional ix
QuoteOptIdx == {<<>>} \cup {<<ix>> : ix \in QuoteIdx}

QuoteOptOf(opt) == IF opt = <<>> THEN <<>> ELSE <<QuoteOf(opt[1])>>

\* the weight tables a SharpEdge is constructed with
WeightTables ==
    { "Pinnacle" :> R(3, 5) @@ "Circa" :> R(2, 5),
      "Pinnacle" :> R(30, 100) @@ "Circa" :> R(25, 100),
      "Pinnacle" :> R(7, 10) @@ "Circa" :> R(0, 1) }

\* odds_data of up to three books; TestBook is in no weight table
OddsData(pinnacle, circa, testbook) ==
    [book \in {b \in {"Pinnacle"} : pinnacle # <<>>}
              \cup {b \in {"Circa"} : circa # <<>>}
              \cup {b \in {"TestBook"} : testbook} |->
        CASE book = "Pinnacle" -> pinnacle[1]
          [] book = "Circa" -> circa[1]
          [] OTHER -> <<R(191, 100), R(191, 100)>>]

\* the default of SharpEdge.__init__'s liquidity_threshold
DefaultLiquidityThreshold == 1000

\* the liquidity thresholds a SharpEdge is constructed with
LiquidityThresholds == {DefaultLiquidityThreshold, 0}

\* the default of PlayerPropsModel.__init__'s min_books
DefaultMinBooks == 3

\* the minimum book counts a PlayerPropsModel is constructed with
MinBooks == {DefaultMinBooks, 2}

\* one exchange's entry of exchange_data: a dict with or without "liquidity"
\* and "odds"
ExchangeEntries ==
    {[liquidity |-> l, odds |-> q] : l \in {800, 1000, 1200}, q \in Quotes}
    \cup {[odds |-> q] : q \in Quotes}
    \cup {[liquidity |-> l] : l \in {800, 1000, 1200}}

\* exchange_data: ProphetX is in the exchange weight table, Kalshi is not
ExchangeDatas ==
    {<<>>, "Kalshi" :> [liquidity |-> 1200, odds |-> <<R(191, 100), R(191, 100)>>]}
    \cup {"ProphetX" :> e : e \in ExchangeEntries}
    \cup {"ProphetX" :> e @@ "Kalshi" :> [liquidity |-> 1200, odds |-> <<R(2, 1), R(2, 1)>>] :
             e \in ExchangeEntries}

\* the book quotes of the calls that carry exchange data or an offered price
FewQuoteOpt == {<<>>, <<<<R(9, 5), R(11, 5)>>>>, <<<<R(0, 1), R(9, 5)>>>>}

\* one book's entry of spreads_data or totals_data, drawn by an optional ix
\* (<<-1>>: the first side alone, <<-2>>: the second side alone)
InfoOptIdx == {<<>>, <<<<-1>>>>, <<<<-2>>>>} \cup {<<ix>> : ix \in {jx \in QuoteIdx : Len(jx) = 2}}

\* the entry parse_all_markets_odds builds for a spread: each side that is
\* quoted carries its odds and its point, the away point mirrors the home point
SpreadInfoOf(opt, home_point) ==
    IF opt = <<>> THEN <<>>
    ELSE IF opt[1] = <<-1>>
    THEN <<[home_odds |-> R(191, 100), home_point |-> home_point]>>
    ELSE IF opt[1] = <<-2>>
    THEN <<[away_odds |-> R(191, 100), away_point |-> RNeg(home_point)]>>
    ELSE <<[home_odds |-> QuoteOf(opt[1])[1], home_point |-> home_point,
            away_odds |-> QuoteOf(opt[1])[2], away_point |-> RNeg(home_point)]>>

\* the entry parse_all_markets_odds builds for a total: the odds of the sides
\* quoted and the point
TotalsInfoOf(opt, point) ==
    IF opt = <<>> THEN <<>>
    ELSE IF opt[1] = <<-1>> THEN <<[over_odds |-> R(191, 100), point |-> point]>>
    ELSE IF opt[1] = <<-2>> THEN <<[under_odds |-> R(191, 100), point |-> point]>>
    ELSE <<[over_odds |-> QuoteOf(opt[1])[1], under_odds |-> QuoteOf(opt[1])[2],
            point |-> point]>>

\* the lines books quote for one game: a home spread of -3.5 or -2.5, a
\* total of 44.5 or 45.5
SpreadLines == {R(-7, 2), R(-5, 2)}
TotalLines == {R(89, 2), R(91, 2)}

\* offered_odds: None, 0, 1.0, 1.5, 2.05
OfferedOpt == {<<>>, <<R(0, 1)>>, <<R(1, 1)>>, <<R(3, 2)>>, <<R(41, 20)>>}

\* spreads_data or totals_data of up to three books
MarketData(pinnacle, circa, testbook, testinfo) ==
    [book \in {b \in {"Pinnacle"} : pinnacle # <<>>}
              \cup {b \in {"Circa"} : circa # <<>>}
              \cup {b \in {"TestBook"} : testbook} |->
        CASE book = "Pinnacle" -> pinnacle[1]
          [] book = "Circa" -> circa[1]
          [] OTHER -> testinfo]

\* the book names an odds snapshot may carry
ApiBookNames ==
    <<"Pinnacle", "Circa", "BetOnline", "BetOnline.ag", "BetMGM Sportsbook",
      "Caesars Sportsbook", "WynnBET", "LowVig.ag", "Fliff">>

\* the longest list of available book names
MaxAvail == 4

\* the lists of at most n distinct names of ApiBookNames from index lo on (an
\* odds snapshot lists each bookmaker title once), in the order of
\* ApiBookNames (get_nfl_weights does not depend on the order of its list)
RECURSIVE NameLists(_, _)
NameLists(n, lo) ==
    IF n = 0 THEN {<<>>}
    ELSE {<<>>} \cup UNION {{<<ApiBookNames[i]>> \o l : l \in NameLists(n - 1, i + 1)} :
                              i \in lo..Len(ApiBookNames)}

AvailableLists == NameLists(MaxAvail, 1)

MarketTypes == {"moneyline", "spreads", "totals", "player_props"}

\* one book's entry of an over/under prop_data: a dict that may lack its line
\* or one of its odds; the odds may be valid or not (0.5, 0)
OverUnderEntries ==
    { [over_odds |-> R(191, 100), under_odds |-> R(191, 100), line |-> R(501, 2)],
      [over_odds |-> R(9, 5), under_odds |-> R(11, 5), line |-> R(503, 2)],
      [over_odds |-> R(191, 100), under_odds |-> R(191, 100)],
      [over_odds |-> R(191, 100), line |-> R(501, 2)],
      [line |-> R(505, 2)],
      [over_odds |-> R(1, 2), under_odds |-> R(1, 2), line |-> R(501, 2)],
      [over_odds |-> R(0, 1), under_odds |-> R(9, 5), line |-> R(501, 2)] }

\* an optional entry of each of these
Optional(S) == {<<>>} \cup {<<e>> : e \in S}

\* a dict of the present entries among fanduel, circa, wynnbet, bookmaker and
\* testbook; FanDuel and Circa carry prop weight, WynnBET and BookMaker have
\* the prop weight 0, TestBook is not in prop_weights
PropData(fanduel, circa, wynnbet, bookmaker, testbook) ==
    LET entries == "FanDuel" :> fanduel @@ "Circa" :> circa @@ "WynnBET" :> wynnbet
                   @@ "BookMaker" :> bookmaker @@ "TestBook" :> testbook
    IN  [book_name \in {b \in DOMAIN entries : entries[b] # <<>>} |-> entries[book_name][1]]

\* prop_data of an over/under prop
OverUnderPropDatas ==
    {PropData(fanduel, circa, wynnbet, bookmaker, testbook) :
        fanduel \in Optional(OverUnderEntries),
        circa \in Optional(OverUnderEntries),
        wynnbet \in Optional({[over_odds |-> R(2, 1), under_odds |-> R(9, 5), line |-> R(300, 1)],
                              [over_odds |-> R(2, 1), under_odds |-> R(9, 5)]}),
        bookmaker \in Optional({[line |-> R(240, 1)]}),
        testbook \in Optional({[over_odds |-> R(2, 1), under_odds |-> R(2, 1), line |-> R(499, 2)],
                               [over_odds |-> R(2, 1), under_odds |-> R(2, 1), line |-> R(260, 1)]})}

\* one book's entry of a yes/no prop_data
YesNoEntries ==
    { [yes_odds |-> R(3, 1), no_odds |-> R(13, 10)],
      [yes_odds |-> R(16, 5), no_odds |-> R(13, 10)],
      [yes_odds |-> R(3, 1)],
      [yes_odds |-> R(1, 2), no_odds |-> R(1, 2)],
      [yes_odds |-> R(0, 1), no_odds |-> R(3, 1)] }

\* prop_data of a yes/no prop
YesNoPropDatas ==
    {PropData(fanduel, circa, wynnbet, <<>>, testbook) :
        fanduel \in Optional(YesNoEntries),
        circa \in Optional(YesNoEntries),
        wynnbet \in Optional({[yes_odds |-> R(3, 1), no_odds |-> R(13, 10)]}),
        testbook \in Optional({[yes_odds |-> R(3, 1), no_odds |-> R(13, 10)]})}

\* prop_type of the analyses: one of prop_types' keys or none of them
OverUnderPropTypes == {"passing_yards", "longest_reception"}
YesNoPropTypes == {"anytime_touchdown", "longest_reception"}

\* decimal_odds of decimal_to_american: 2.0, 2.005, 2.3, 2.5, 3.0, 1.5, 1.91,
\* 1.3, 1.05, 100/53, 1.0, 0.5, 0, -2
AmericanInputs ==
    {R(2, 1), R(401, 200), R(23, 10), R(5, 2), R(3, 1), R(3, 2), R(191, 100),
     R(13, 10), R(21, 20), R(100, 53), R(1, 1), R(1, 2), R(0, 1), R(-2, 1)}

\* offered_odds of _calculate_comprehensive_ev: at fair probability 0.5 the
\* EV percentages 3.0, 1.5, 0.5, 0, 2.5, 1.0, 0.25, 10 and -25; and 1.0, 0.5
ComprehensiveOfferedOdds ==
    {R(103, 50), R(203, 100), R(201, 100), R(2, 1), R(41, 20), R(101, 50),
     R(401, 200), R(11, 5), R(3, 2), R(1, 1), R(1, 2)}

\* fair_prob of _calculate_comprehensive_ev; fair_odds_decimal is its inverse
ComprehensiveFairProbs == {R(1, 2), R(53, 100)}

\* offered_odds of calculate_ev: 2.0, 100/53, 2.05, 1.5, 1.0, 0.5, 0, 4.0
EvOfferedOdds ==
    {R(2, 1), R(100, 53), R(41, 20), R(3, 2), R(1, 1), R(1, 2), R(0, 1), R(4, 1)}

\* fair_prob of calculate_ev: 0.53, 0.5, 0.25, 0, 1, 1.2, -0.1
EvFairProbs ==
    {R(53, 100), R(1, 2), R(1, 4), R(0, 1), R(1, 1), R(6, 5), R(-1, 10)}

\* a dict of the present entries of entries
PresentEntries(entries) ==
    [book_name \in {b \in DOMAIN entries : entries[b] # <<>>} |-> entries[book_name][1]]

\* prop_data of an over/under prop searched for opportunities: FanDuel quotes
\* validly, Circa may quote 0.5 or lack its under side, BetMGM has the prop
\* weight 0.06, WynnBET the prop weight 0, TestBook is not in prop_weights and
\* may quote under odds of 1.0
OverUnderSearchDatas ==
    {PresentEntries("FanDuel" :> <<fanduel>> @@ "Circa" :> circa @@ "BetMGM" :> betmgm
                    @@ "WynnBET" :> wynnbet @@ "TestBook" :> testbook) :
        fanduel \in {[over_odds |-> R(9, 5), under_odds |-> R(11, 5), line |-> R(503, 2)],
                     [over_odds |-> R(191, 100), under_odds |-> R(191, 100),
                      line |-> R(501, 2)]},
        circa \in Optional({[over_odds |-> R(191, 100), under_odds |-> R(191, 100),
                             line |-> R(501, 2)],
                            [over_odds |-> R(1, 2), under_odds |-> R(1, 2), line |-> R(501, 2)],
                            [over_odds |-> R(191, 100), line |-> R(501, 2)]}),
        betmgm \in Optional({[over_odds |-> R(2, 1), under_odds |-> R(9, 5),
                              line |-> R(501, 2)]}),
        wynnbet \in Optional({[over_odds |-> R(2, 1), under_odds |-> R(9, 5),
                               line |-> R(501, 2)]}),
        testbook \in Optional({[over_odds |-> R(11, 5), under_odds |-> R(2, 1),
                                line |-> R(499, 2)],
                               [over_odds |-> R(11, 5), under_odds |-> R(1, 1),
                                line |-> R(499, 2)]})}

\* prop_data of a yes/no prop searched for opportunities
YesNoSearchDatas ==
    {PresentEntries("FanDuel" :> <<fanduel>> @@ "Circa" :> circa @@ "BetMGM" :> betmgm
                    @@ "WynnBET" :> wynnbet @@ "TestBook" :> testbook) :
        fanduel \in {[yes_odds |-> R(3, 1), no_odds |-> R(13, 10)],
                     [yes_odds |-> R(16, 5), no_odds |-> R(13, 10)]},
        circa \in Optional({[yes_odds |-> R(3, 1), no_odds |-> R(13, 10)],
                            [yes_odds |-> R(1, 2), no_odds |-> R(1, 2)],
                            [yes_odds |-> R(3, 1)]}),
        betmgm \in Optional({[yes_odds |-> R(7, 2), no_odds |-> R(5, 4)]}),
        wynnbet \in Optional({[yes_odds |-> R(3, 1), no_odds |-> R(13, 10)]}),
        testbook \in Optional({[yes_odds |-> R(4, 1), no_odds |-> R(13, 10)],
                               [yes_odds |-> R(0, 1), no_odds |-> R(3, 1)]})}

\* min_ev of find_prop_ev_opportunities: its default 0.5, the test suite's
\* 0.1, and 10
MinEvs == {R(1, 2), R(1, 10), R(10, 1)}

(***************************************************************************)
(* The state machine: a caller constructs a SharpEdge and calls the        *)
(* engines' methods one at a time.                                         *)
(***************************************************************************)
NoCall == [op |-> "none"]
NoResult == [kind |-> "none"]

\* the engines as constructed: at most one argument of the constructors
\* departs from the test suite's (the first weight table, the defaults)
Constructed ==
    /\ weights \in WeightTables
    /\ exchange_weights = ("ProphetX" :> R(1, 10))
    /\ liquidity_threshold \in LiquidityThresholds
    /\ min_books \in MinBooks
    /\ \/ liquidity_threshold = DefaultLiquidityThreshold /\ min_books = DefaultMinBooks
       \/ /\ weights = ("Pinnacle" :> R(3, 5) @@ "Circa" :> R(2, 5))
          /\ liquidity_threshold = DefaultLiquidityThreshold \/ min_books = DefaultMinBooks
    /\ nfl_weights_primary = nfl_weights_primary_init
    /\ pc = "idle"
    /\ call = NoCall
    /\ result = NoResult

\* a caller that keeps no result
Init == Constructed /\ observed = [state |-> "off"]

\* what a caller that compares consensus calls has kept once call c returned
\* r: the first consensus call with its result, and whether another
\* operation of the engine has run since
Observe(c, r) ==
    IF observed.state = "waiting" /\ c.op = "get_fair_odds_and_ev"
    THEN [state |-> "seen", call |-> c, result |-> r, between |-> FALSE]
    ELSE IF observed.state = "seen" /\ c.op # "get_fair_odds_and_ev"
    THEN [observed EXCEPT !.between = TRUE]
    ELSE observed

\* a call that stores other weights in the model when it is a totals analysis
ReturnedReweighting(c, r) ==
    /\ pc' = "returned"
    /\ call' = c
    /\ result' = r
    /\ observed' = Observe(c, r)
    /\ weights' = IF c.op = "analyze_totals_market"
                  THEN [book \in DOMAIN weights |-> R(1, 2)]
                  ELSE weights
    /\ UNCHANGED <<exchange_weights, liquidity_threshold, min_books, nfl_weights_primary>>

\* call c returns or raises r: no method assigns an attribute of its object
Returned(c, r) ==
    /\ pc' = "returned"
    /\ call' = c
    /\ result' = r
    /\ observed' = Observe(c, r)
    /\ UNCHANGED <<weights, exchange_weights, liquidity_threshold, min_books,
                   nfl_weights_primary>>

\* SharpEdge.devig_multiplicative(odds)
CallDevig ==
    /\ pc = "idle"
    /\ \E ix \in DevigQuoteIdx :
          Returned([op |-> "devig_multiplicative", odds |-> QuoteOf(ix)],
                   devig_multiplicative(QuoteOf(ix)))

\* PlayerPropsModel.devig_multiplicative(odds)
CallPropsDevig ==
    /\ pc = "idle"
    /\ \E ix \in DevigQuoteIdx :
          Returned([op |-> "props_devig_multiplicative", odds |-> QuoteOf(ix)],
                   props_devig_multiplicative(QuoteOf(ix)))

\* SharpEdge.get_fair_odds_and_ev(odds_data)
CallGetFairOdds ==
    /\ pc = "idle"
    /\ \E pinnacle \in QuoteOptIdx, circa \in QuoteOptIdx, testbook \in BOOLEAN :
          LET odds_data == OddsData(QuoteOptOf(pinnacle), QuoteOptOf(circa), testbook)
          IN  Returned([op |-> "get_fair_odds_and_ev", odds_data |-> odds_data,
                        exchange_data |-> <<>>, offered_odds |-> <<>>],
                       get_fair_odds_and_ev(odds_data, <<>>, <<>>))

\* SharpEdge.get_fair_odds_and_ev(odds_data, exchange_data, offered_odds)
CallGetFairOddsExchange ==
    /\ pc = "idle"
    /\ \E pinnacle \in FewQuoteOpt, exchange_data \in ExchangeDatas, offered_odds \in OfferedOpt :
          LET odds_data == OddsData(pinnacle, <<>>, FALSE)
          IN  Returned([op |-> "get_fair_odds_and_ev", odds_data |-> odds_data,
                        exchange_data |-> exchange_data, offered_odds |-> offered_odds],
                       get_fair_odds_and_ev(odds_data, exchange_data, offered_odds))

\* SharpEdge.analyze_spread_market(spreads_data)
CallAnalyzeSpread ==
    /\ pc = "idle"
    /\ \E pinnacle \in InfoOptIdx, circa \in InfoOptIdx, testbook \in BOOLEAN,
          circa_point \in SpreadLines :
          LET spreads_data ==
                  MarketData(SpreadInfoOf(pinnacle, R(-7, 2)),
                             SpreadInfoOf(circa, circa_point), testbook,
                             [home_odds |-> R(191, 100), home_point |-> R(-7, 2),
                              away_odds |-> R(191, 100), away_point |-> R(7, 2)])
          IN  Returned([op |-> "analyze_spread_market", spreads_data |-> spreads_data],
                       analyze_spread_market(spreads_data))

\* SharpEdge.analyze_totals_market(totals_data)
CallAnalyzeTotals ==
    /\ pc = "idle"
    /\ \E pinnacle \in InfoOptIdx, circa \in InfoOptIdx, testbook \in BOOLEAN,
          circa_point \in TotalLines :
          LET totals_data ==
                  MarketData(TotalsInfoOf(pinnacle, R(89, 2)),
                             TotalsInfoOf(circa, circa_point), testbook,
                             [over_odds |-> R(191, 100), under_odds |-> R(191, 100),
                              point |-> R(89, 2)])
          IN  Returned([op |-> "analyze_totals_market", totals_data |-> totals_data],
                       analyze_totals_market(totals_data))

\* NFLWeightingEngine.get_nfl_weights(market_type, available_book_names)
CallGetNflWeights ==
    /\ pc = "idle"
    /\ \E market_type \in MarketTypes,
          available_book_names \in {<<>>} \cup {<<l>> : l \in AvailableLists} :
          Returned([op |-> "get_nfl_weights", market_type |-> market_type,
                    available_book_names |-> available_book_names],
                   get_nfl_weights(market_type, available_book_names))

\* SharpEdge.calculate_ev(offered_odds, fair_prob)
CallCalculateEv ==
    /\ pc = "idle"
    /\ \E offered_odds \in EvOfferedOdds, fair_prob \in EvFairProbs :
          Returned([op |-> "calculate_ev", offered_odds |-> offered_odds,
                    fair_prob |-> fair_prob],
                   calculate_ev(offered_odds, fair_prob))

\* PlayerPropsModel.calculate_ev(offered_odds, fair_prob)
CallPropsCalculateEv ==
    /\ pc = "idle"
    /\ \E offered_odds \in EvOfferedOdds, fair_prob \in EvFairProbs :
          Returned([op |-> "props_calculate_ev", offered_odds |-> offered_odds,
                    fair_prob |-> fair_prob],
                   props_calculate_ev(offered_odds, fair_prob))

\* SharpEdge.decimal_to_american(decimal_odds)
CallDecimalToAmerican ==
    /\ pc = "idle"
    /\ \E decimal_odds \in AmericanInputs :
          Returned([op |-> "decimal_to_american", decimal_odds |-> decimal_odds],
                   decimal_to_american(decimal_odds))

\* PlayerPropsModel.decimal_to_american(decimal_odds)
CallPropsDecimalToAmerican ==
    /\ pc = "idle"
    /\ \E decimal_odds \in AmericanInputs :
          Returned([op |-> "props_decimal_to_american", decimal_odds |-> decimal_odds],
                   props_decimal_to_american(decimal_odds))

\* SharpEdge._calculate_comprehensive_ev(offered_odds, fair_prob, fair_odds_decimal)
CallComprehensiveEv ==
    /\ pc = "idle"
    /\ \E offered_odds \in ComprehensiveOfferedOdds, fair_prob \in ComprehensiveFairProbs :
          Returned([op |-> "calculate_comprehensive_ev", offered_odds |-> offered_odds,
                    fair_prob |-> fair_prob, fair_odds_decimal |-> RDiv(One, fair_prob)],
                   calculate_comprehensive_ev(offered_odds, fair_prob, RDiv(One, fair_prob)))

\* PlayerPropsModel.calculate_consensus_line(prop_data)
CallConsensusLine ==
    /\ pc = "idle"
    /\ \E prop_data \in OverUnderPropDatas :
          Returned([op |-> "calculate_consensus_line", prop_data |-> prop_data],
                   calculate_consensus_line(prop_data))

\* PlayerPropsModel.analyze_over_under_prop(prop_data, player_name, prop_type)
CallAnalyzeOverUnder ==
    /\ pc = "idle"
    /\ \E prop_data \in OverUnderPropDatas, prop_type \in OverUnderPropTypes :
          Returned([op |-> "analyze_over_under_prop", prop_data |-> prop_data,
                    player_name |-> "Player", prop_type |-> prop_type],
                   analyze_over_under_prop(prop_data, "Player", prop_type))

\* PlayerPropsModel.analyze_yes_no_prop(prop_data, player_name, prop_type)
CallAnalyzeYesNo ==
    /\ pc = "idle"
    /\ \E prop_data \in YesNoPropDatas, prop_type \in YesNoPropTypes :
          Returned([op |-> "analyze_yes_no_prop", prop_data |-> prop_data,
                    player_name |-> "Player", prop_type |-> prop_type],
                   analyze_yes_no_prop(prop_data, "Player", prop_type))

\* PlayerPropsModel.find_prop_ev_opportunities(analysis, prop_data, min_ev) on
\* an over/under prop, with the analysis analyze_over_under_prop returned
CallFindOverUnderOpportunities ==
    /\ pc = "idle"
    /\ \E prop_data \in OverUnderSearchDatas, prop_type \in OverUnderPropTypes,
          min_ev \in MinEvs :
          /\ IsOk(analyze_over_under_prop(prop_data, "Player", prop_type))
          /\ Returned([op |-> "find_prop_ev_opportunities",
                       analysis |-> analyze_over_under_prop(prop_data, "Player", prop_type),
                       prop_data |-> prop_data, min_ev |-> min_ev],
                      find_prop_ev_opportunities(
                          analyze_over_under_prop(prop_data, "Player", prop_type),
                          prop_data, min_ev))

\* PlayerPropsModel.find_prop_ev_opportunities(analysis, prop_data, min_ev) on
\* a yes/no prop, with the analysis analyze_yes_no_prop returned
CallFindYesNoOpportunities ==
    /\ pc = "idle"
    /\ \E prop_data \in YesNoSearchDatas, prop_type \in YesNoPropTypes, min_ev \in MinEvs :
          /\ IsOk(analyze_yes_no_prop(prop_data, "Player", prop_type))
          /\ Returned([op |-> "find_prop_ev_opportunities",
                       analysis |-> analyze_yes_no_prop(prop_data, "Player", prop_type),
                       prop_data |-> prop_data, min_ev |-> min_ev],
                      find_prop_ev_opportunities(
                          analyze_yes_no_prop(prop_data, "Player", prop_type),
                          prop_data, min_ev))

\* the caller takes the result; the next call may start
Return ==
    /\ pc = "returned"
    /\ pc' = "idle"
    /\ call' = NoCall
    /\ result' = NoResult
    /\ UNCHANGED <<weights, exchange_weights, liquidity_threshold, min_books,
                   nfl_weights_primary, observed>>

Next ==
    \/ CallDevig
    \/ CallPropsDevig
    \/ CallGetFairOdds
    \/ CallGetFairOddsExchange
    \/ CallAnalyzeSpread
    \/ CallAnalyzeTotals
    \/ CallGetNflWeights
    \/ CallCalculateEv
    \/ CallPropsCalculateEv
    \/ CallDecimalToAmerican
    \/ CallPropsDecimalToAmerican
    \/ CallComprehensiveEv
    \/ CallConsensusLine
    \/ CallAnalyzeOverUnder
    \/ CallAnalyzeYesNo
    \/ CallFindOverUnderOpportunities
    \/ CallFindYesNoOpportunities
    \/ Return

Spec == Init /\ [][Next]_vars


(***************************************************************************)
(* A caller that repeats a consensus call: it keeps the first              *)
(* get_fair_odds_and_ev call and its result, runs other operations of the  *)
(* engine and calls again.                                                 *)
(***************************************************************************)
InitRepeat == Constructed /\ observed = [state |-> "waiting"]

\* the arguments of this caller's calls: Pinnacle with or without ProphetX and
\* an offered price of 2.05; valid quotes of Pinnacle and Circa
RepeatExchangeDatas ==
    {<<>>, "ProphetX" :> [liquidity |-> 1200, odds |-> <<R(9, 5), R(11, 5)>>]}
RepeatOffered == {<<>>, <<R(41, 20)>>}
RepeatInfoIdx == {<<<<i, j>>>> : i \in 1..2, j \in 1..2}

\* SharpEdge.get_fair_odds_and_ev(odds_data, exchange_data, offered_odds)
RepeatGetFairOdds ==
    /\ pc = "idle"
    /\ \E pinnacle \in FewQuoteOpt, exchange_data \in RepeatExchangeDatas,
          offered_odds \in RepeatOffered :
          LET odds_data == OddsData(pinnacle, <<>>, FALSE)
          IN  Returned([op |-> "get_fair_odds_and_ev", odds_data |-> odds_data,
                        exchange_data |-> exchange_data, offered_odds |-> offered_odds],
                       get_fair_odds_and_ev(odds_data, exchange_data, offered_odds))

\* SharpEdge.analyze_spread_market(spreads_data)
RepeatAnalyzeSpread ==
    /\ pc = "idle"
    /\ \E pinnacle \in RepeatInfoIdx, circa \in RepeatInfoIdx :
          LET spreads_data ==
                  MarketData(SpreadInfoOf(pinnacle, R(-7, 2)), SpreadInfoOf(circa, R(-7, 2)),
                             FALSE, <<>>)
          IN  Returned([op |-> "analyze_spread_market", spreads_data |-> spreads_data],
                       analyze_spread_market(spreads_data))

\* SharpEdge.analyze_totals_market(totals_data)
RepeatAnalyzeTotals ==
    /\ pc = "idle"
    /\ \E pinnacle \in RepeatInfoIdx, circa \in RepeatInfoIdx :
          LET totals_data ==
                  MarketData(TotalsInfoOf(pinnacle, R(89, 2)), TotalsInfoOf(circa, R(89, 2)),
                             FALSE, <<>>)
          IN  Returned([op |-> "analyze_totals_market", totals_data |-> totals_data],
                       analyze_totals_market(totals_data))

NextRepeat ==
    \/ RepeatGetFairOdds
    \/ CallDevig
    \/ CallCalculateEv
    \/ RepeatAnalyzeSpread
    \/ RepeatAnalyzeTotals
    \/ Return

SpecRepeat == InitRepeat /\ [][NextRepeat]_vars

(***************************************************************************)
(* A caller that modifies the weights it received from get_nfl_weights.    *)
(***************************************************************************)
\* the weight the caller stores, and the book it stores it for
ModifiedWeight == R(1, 2)
ModifiedBooks == {"Pinnacle"}

\* weights[book] = 0.5 on the mapping the last get_nfl_weights call returned.
\* Without a list of books the mapping is the primary table of the market
\* itself (of moneyline for a market without table); with a list it is a dict
\* built by the call
CallerModifiesMapping ==
    /\ pc = "returned"
    /\ call.op = "get_nfl_weights"
    /\ IsOk(result)
    /\ \E book \in ModifiedBooks \cap DOMAIN result.value :
          /\ result.value[book] # ModifiedWeight
          /\ result' = [result EXCEPT !.value[book] = ModifiedWeight]
          /\ nfl_weights_primary' =
                 IF call.available_book_names # <<>> THEN nfl_weights_primary
                 ELSE IF call.market_type \in DOMAIN nfl_weights_primary
                 THEN [nfl_weights_primary EXCEPT ![call.market_type][book] = ModifiedWeight]
                 ELSE [nfl_weights_primary EXCEPT !["moneyline"][book] = ModifiedWeight]
    /\ UNCHANGED <<weights, exchange_weights, liquidity_threshold, min_books, observed,
                   pc, call>>

NextNfl ==
    \/ CallGetNflWeights
    \/ CallerModifiesMapping
    \/ Return

SpecNfl == Init /\ [][NextNfl]_vars
(***************************************************************************)
(* Vocabulary of the properties.  These definitions restate what the       *)
(* specification says in its own terms, without the engine's operators.    *)
(***************************************************************************)

\* a quote the specification calls valid: two sides, both odds above 1.0
ValidQuote(q) == Len(q) = 2 /\ RLt(One, q[1]) /\ RLt(One, q[2])

\* the devigged side-A probability of a quote (a, b) in closed form:
\* (1/a) / (1/a + 1/b) = b / (a + b)
SideAProb(q) == RDiv(q[2], RAdd(q[1], q[2]))

\* a quote that devigs by arithmetic alone: two sides, no division by zero
Devigs(q) == Len(q) = 2 /\ ~IsZero(q[1]) /\ ~IsZero(q[2]) /\ ~IsZero(RAdd(q[1], q[2]))

Returns(op) == pc = "returned" /\ call.op = op

IsConsensusCall ==
    /\ pc = "returned"
    /\ call.op \in {"get_fair_odds_and_ev", "analyze_spread_market", "analyze_totals_market"}

\* the quotes of the last consensus call's books that are in the weight table,
\* each as a tuple; an entry that lacks an odds field is the empty tuple
WeightedQuotes ==
    CASE call.op = "get_fair_odds_and_ev" ->
            [b \in DOMAIN call.odds_data \cap DOMAIN weights |-> call.odds_data[b]]
      [] call.op = "analyze_spread_market" ->
            [b \in DOMAIN call.spreads_data \cap DOMAIN weights |->
                IF {"home_odds", "away_odds"} \subseteq DOMAIN call.spreads_data[b]
                THEN <<call.spreads_data[b].home_odds, call.spreads_data[b].away_odds>>
                ELSE <<>>]
      [] call.op = "analyze_totals_market" ->
            [b \in DOMAIN call.totals_data \cap DOMAIN weights |->
                IF {"over_odds", "under_odds"} \subseteq DOMAIN call.totals_data[b]
                THEN <<call.totals_data[b].over_odds, call.totals_data[b].under_odds>>
                ELSE <<>>]

\* the exchange data of the last consensus call
CallExchangeData ==
    IF call.op = "get_fair_odds_and_ev" THEN call.exchange_data ELSE <<>>

ValidBooks == {b \in DOMAIN WeightedQuotes : ValidQuote(WeightedQuotes[b])}
MalformedBooks == DOMAIN WeightedQuotes \ ValidBooks

\* the sum of f[x] over the set S
RECURSIVE SumOver(_, _)
SumOver(S, f) ==
    IF S = {} THEN Zero
    ELSE LET x == CHOOSE y \in S : TRUE IN RAdd(f[x], SumOver(S \ {x}, f))

\* p is the weighted average of the side-A probabilities of the books B
\* (quotes q, weights w) and the exchanges E (quotes xq, weights xw)
IsWeightedAverage(p, B, q, w, E, xq, xw) ==
    LET total == RAdd(SumOver(B, w), SumOver(E, xw))
        weighted == RAdd(SumOver(B, [b \in B |-> RMul(SideAProb(q[b]), w[b])]),
                         SumOver(E, [e \in E |-> RMul(SideAProb(xq[e]), xw[e])]))
    IN  RMul(p, total) = weighted

(***************************************************************************)
(* C1.  The fair probability returned by get_fair_odds_and_ev is the sum   *)
(* over the contributors (every book in both the odds mapping and the      *)
(* weight table whose quote devigs, and every exchange in the exchange     *)
(* weight table at or above the liquidity threshold whose quote devigs) of *)
(* side-A probability times weight, divided by the sum of the              *)
(* contributors' weights, whether or not the weights sum to 1.             *)
(***************************************************************************)
C1_Books == {b \in DOMAIN WeightedQuotes : Devigs(WeightedQuotes[b])}

C1_Exchanges ==
    {e \in DOMAIN call.exchange_data \cap DOMAIN exchange_weights :
        /\ "odds" \in DOMAIN call.exchange_data[e]
        /\ (IF "liquidity" \in DOMAIN call.exchange_data[e]
            THEN call.exchange_data[e].liquidity ELSE 0) >= liquidity_threshold
        /\ Devigs(call.exchange_data[e].odds)}

C1_FairProbIsWeightedAverage ==
    (Returns("get_fair_odds_and_ev") /\ IsOk(result)) =>
        IsWeightedAverage(result.fair_prob, C1_Books, WeightedQuotes, weights,
                          C1_Exchanges,
                          [e \in C1_Exchanges |-> call.exchange_data[e].odds],
                          exchange_weights)

\* books of weight 0.6 and 0.4 with devigged probabilities 0.55 and 0.50
\* give the fair probability 0.53
C1_Witness ==
    /\ Returns("get_fair_odds_and_ev")
    /\ weights = ("Pinnacle" :> R(3, 5) @@ "Circa" :> R(2, 5))
    /\ DOMAIN call.odds_data = {"Pinnacle", "Circa"}
    /\ call.odds_data["Pinnacle"] = <<R(9, 5), R(11, 5)>>
    /\ call.odds_data["Circa"] = <<R(9, 5), R(9, 5)>>
    /\ IsOk(result)
    /\ result.fair_prob = R(53, 100)

\* an exchange contributes to the average, with weights that do not sum to 1
C1_WitnessExchange ==
    /\ Returns("get_fair_odds_and_ev")
    /\ IsOk(result)
    /\ C1_Books # {}
    /\ C1_Exchanges # {}
    /\ RAdd(SumOver(C1_Books, weights), SumOver(C1_Exchanges, exchange_weights)) # One
    /\ result.fair_prob # R(1, 2)

(***************************************************************************)
(* C2.  For decimal odds (a, b), both above 1.0, devig_multiplicative (of  *)
(* SharpEdge and of PlayerPropsModel) returns the two probabilities        *)
(* (1/a)/(1/a + 1/b) and (1/b)/(1/a + 1/b): each strictly between 0 and 1, *)
(* summing to 1, and (0.5, 0.5) when a = b.                                *)
(***************************************************************************)
C2_DevigOfValidOdds ==
    (/\ pc = "returned"
     /\ call.op \in {"devig_multiplicative", "props_devig_multiplicative"}
     /\ ValidQuote(call.odds)) =>
        /\ IsOk(result)
        /\ Len(result.probs) = 2
        /\ RMul(result.probs[1], RAdd(call.odds[1], call.odds[2])) = call.odds[2]
        /\ RMul(result.probs[2], RAdd(call.odds[1], call.odds[2])) = call.odds[1]
        /\ \A i \in 1..2 : RLt(Zero, result.probs[i]) /\ RLt(result.probs[i], One)
        /\ RAdd(result.probs[1], result.probs[2]) = One
        /\ (call.odds[1] = call.odds[2] => result.probs = <<R(1, 2), R(1, 2)>>)

\* odds (1.91, 1.91) devig to (0.5, 0.5)
C2_Witness ==
    /\ Returns("devig_multiplicative")
    /\ call.odds = <<R(191, 100), R(191, 100)>>
    /\ result = [kind |-> "ok", probs |-> <<R(1, 2), R(1, 2)>>]

(***************************************************************************)
(* Vocabulary of the weight-policy properties.                             *)
(***************************************************************************)

\* a get_nfl_weights call with a list of available books, for a market type
\* the engine has tables for
IsWeightsCall ==
    /\ Returns("get_nfl_weights")
    /\ call.available_book_names # <<>>
    /\ call.market_type \in {"moneyline", "spreads", "totals"}

\* the available books: the names of the call's list, normalized
AvailableBooks ==
    {normalize_book_name(call.available_book_names[1][i]) :
        i \in 1..Len(call.available_book_names[1])}

NeverUse == {"WynnBET", "LowVig.ag"}

AvailablePrimary == AvailableBooks \cap DOMAIN nfl_weights_primary[call.market_type]

AvailableFallback ==
    (AvailableBooks \cap DOMAIN nfl_weights_fallback[call.market_type]) \ NeverUse

MinRequired == min_books_required[call.market_type]

\* the mapping m holds exactly the books B, each with its weight in table
\* divided by the sum of the weights of B in table
IsRenormalized(m, B, table) ==
    /\ DOMAIN m = B
    /\ \A b \in B : RMul(m[b], SumOver(B, table)) = table[b]

(***************************************************************************)
(* C3.  get_nfl_weights picks its tier by the book counts: with at least   *)
(* the market's minimum of available primary books the result is exactly   *)
(* those books with renormalized primary weights; otherwise, with at least *)
(* the minimum of available fallback books not on the never-use list, it   *)
(* is exactly those books with renormalized fallback weights.              *)
(***************************************************************************)
C3_TierSelection ==
    IsWeightsCall =>
        /\ IsOk(result)
        /\ Cardinality(AvailablePrimary) >= MinRequired =>
              IsRenormalized(result.value, AvailablePrimary,
                             nfl_weights_primary[call.market_type])
        /\ (Cardinality(AvailablePrimary) < MinRequired
            /\ Cardinality(AvailableFallback) >= MinRequired) =>
              IsRenormalized(result.value, AvailableFallback,
                             nfl_weights_fallback[call.market_type])

\* minimum 3, 2 primary and 4 fallback books available: the fallback tier
C3_Witness ==
    /\ IsWeightsCall
    /\ call.market_type = "moneyline"
    /\ MinRequired = 3
    /\ Cardinality(AvailablePrimary) = 2
    /\ Cardinality(AvailableFallback) = 4
    /\ result.value = ("Pinnacle" :> R(25, 58) @@ "Circa" :> R(22, 58)
                       @@ "BetMGM" :> R(6, 58) @@ "Caesars" :> R(5, 58))

\* the primary tier is selected with exactly the minimum of primary books
C3_WitnessPrimary ==
    /\ IsWeightsCall
    /\ call.market_type = "spreads"
    /\ AvailablePrimary = {"Pinnacle", "BetOnline"}
    /\ result.value = ("Pinnacle" :> R(35, 55) @@ "BetOnline" :> R(20, 55))

(***************************************************************************)
(* C4.  Whenever get_nfl_weights returns a non-empty mapping for a list of *)
(* available books, in whichever tier, the returned weights sum to 1.      *)
(***************************************************************************)
C4_WeightsSumToOne ==
    (IsWeightsCall /\ IsOk(result) /\ DOMAIN result.value # {}) =>
        SumOver(DOMAIN result.value, result.value) = One

(***************************************************************************)
(* C8.  When neither tier has enough available books, get_nfl_weights      *)
(* gives the weight 1/k to every available book not on the never-use list, *)
(* k being the number of such books, and the empty mapping when there is   *)
(* none.                                                                   *)
(***************************************************************************)
EmergencyTier ==
    /\ IsWeightsCall
    /\ Cardinality(AvailablePrimary) < MinRequired
    /\ Cardinality(AvailableFallback) < MinRequired

C8_EmergencyEqualWeights ==
    EmergencyTier =>
        /\ IsOk(result)
        /\ DOMAIN result.value = AvailableBooks \ NeverUse
        /\ \A b \in DOMAIN result.value :
              result.value[b] = R(1, Cardinality(AvailableBooks \ NeverUse))

(***************************************************************************)
(* C9.  No book on the never-use list (WynnBET, LowVig.ag) is a key of a   *)
(* mapping returned by get_nfl_weights, for any market type, with or       *)
(* without a list of available books, in any tier.                         *)
(***************************************************************************)
C9_NeverUseExcluded ==
    (Returns("get_nfl_weights") /\ IsOk(result)) =>
        DOMAIN result.value \cap {"WynnBET", "LowVig.ag"} = {}

\* a never-use book is available and the emergency tier returns the others
C9_Witness ==
    /\ EmergencyTier
    /\ AvailableBooks \cap {"WynnBET", "LowVig.ag"} # {}
    /\ DOMAIN result.value # {}

(***************************************************************************)
(* C5.  In a consensus call (get_fair_odds_and_ev, analyze_spread_market,  *)
(* analyze_totals_market; here without exchange data) in which a weighted  *)
(* book's quote is malformed (an odds value <= 1.0, not exactly two sides, *)
(* or a missing odds field) and another weighted book's quote is valid,    *)
(* the valid books carrying a positive total weight: the call returns a    *)
(* result, its fair probability is the weighted average of the valid       *)
(* books alone, and books_used counts the valid books alone.               *)
(***************************************************************************)
C5_MalformedQuoteSkipped ==
    (/\ IsConsensusCall
     /\ CallExchangeData = <<>>
     /\ MalformedBooks # {}
     /\ ValidBooks # {}
     /\ RLt(Zero, SumOver(ValidBooks, weights))) =>
        /\ IsOk(result)
        /\ result.books_used = Cardinality(ValidBooks)
        /\ IsWeightedAverage(result.fair_prob, ValidBooks, WeightedQuotes, weights,
                             {}, <<>>, <<>>)

(***************************************************************************)
(* C6.  devig_multiplicative (of SharpEdge and of PlayerPropsModel) raises *)
(* an error whenever either of its two decimal odds is <= 1.0.             *)
(***************************************************************************)
C6_DevigRejectsInvalidOdds ==
    (/\ pc = "returned"
     /\ call.op \in {"devig_multiplicative", "props_devig_multiplicative"}
     /\ Len(call.odds) = 2
     /\ (RLe(call.odds[1], One) \/ RLe(call.odds[2], One))) =>
        ~IsOk(result)

(***************************************************************************)
(* C7.  A consensus call fails with a "no valid data" error whenever no    *)
(* contributor remains: no book of the weight table is validly quoted and  *)
(* no exchange passes the liquidity gate.                                  *)
(***************************************************************************)
NoValidDataErrors ==
    {Raise("ValueError", "No valid odds data found"),
     Raise("ValueError", "No valid spread odds data found"),
     Raise("ValueError", "No valid totals odds data found")}

NoExchangePassesGate ==
    \A e \in DOMAIN CallExchangeData :
        ~(/\ e \in DOMAIN exchange_weights
          /\ "liquidity" \in DOMAIN CallExchangeData[e]
          /\ CallExchangeData[e].liquidity >= liquidity_threshold)

C7_NoContributorFails ==
    (IsConsensusCall /\ ValidBooks = {} /\ NoExchangePassesGate) =>
        result \in NoValidDataErrors

(***************************************************************************)
(* C10.  With non-negative weights, every fair probability the consensus   *)
(* engine (get_fair_odds_and_ev, analyze_spread_market,                    *)
(* analyze_totals_market) returns lies strictly between 0 and 1; and from  *)
(* books that are all validly quoted, with a positive total weight, no     *)
(* exchange data and no offered price below or at 1.0 (other than 0, which *)
(* counts as none), it does return one.                                    *)
(***************************************************************************)
OfferedPriceAcceptable ==
    \/ call.op # "get_fair_odds_and_ev"
    \/ call.offered_odds = <<>>
    \/ IsZero(call.offered_odds[1])
    \/ RLt(One, call.offered_odds[1])

IsEvCall == pc = "returned" /\ call.op \in {"calculate_ev", "props_calculate_ev"}

\* the inputs the contract of calculate_ev admits
EvInputValid ==
    /\ RLt(One, call.offered_odds)
    /\ RLt(Zero, call.fair_prob)
    /\ RLt(call.fair_prob, One)

(***************************************************************************)
(* C11.  For offered decimal odds o > 1.0 and fair probability p with      *)
(* 0 < p < 1, calculate_ev returns 100 * (p * (o - 1) - (1 - p)), that is  *)
(* EV/100 + 1 = p * o; offered odds 2.05 with fair probability 0.53 give   *)
(* 8.65.                                                                   *)
(***************************************************************************)
C11_EvFormula ==
    (IsEvCall /\ EvInputValid) =>
        /\ IsOk(result)
        /\ RAdd(RDiv(result.value, R(100, 1)), One) = RMul(call.fair_prob, call.offered_odds)
        /\ (call.offered_odds = R(41, 20) /\ call.fair_prob = R(53, 100)) =>
               result.value = R(865, 100)

\* offered odds 2.05 at fair probability 0.53: EV 8.65
C11_Witness ==
    /\ IsEvCall
    /\ call.offered_odds = R(41, 20)
    /\ call.fair_prob = R(53, 100)
    /\ IsOk(result)
    /\ result.value = R(173, 20)

(***************************************************************************)
(* C12.  calculate_ev rejects its input with an error, and returns no EV   *)
(* value, whenever the offered odds are <= 1.0 or the fair probability is  *)
(* <= 0 or >= 1.                                                           *)
(***************************************************************************)
C12_EvRejectsInvalidInput ==
    (IsEvCall /\ ~EvInputValid) =>
        /\ result.kind = "ValueError"
        /\ "value" \notin DOMAIN result

\* the boundaries: offered odds of exactly 1.0, a fair probability of exactly 1
C12_Witness ==
    /\ IsEvCall
    /\ \/ call.offered_odds = One /\ call.fair_prob = R(1, 2)
       \/ call.offered_odds = R(2, 1) /\ call.fair_prob = One
    /\ result.kind = "ValueError"

(***************************************************************************)
(* C13.  For every valid fair probability p and offered odds o,            *)
(* calculate_ev returns exactly 0 when o equals 1/p, a positive value when *)
(* o * p > 1 and a negative value when o * p < 1.                          *)
(***************************************************************************)
C13_EvSign ==
    (Returns("calculate_ev") /\ EvInputValid) =>
        LET op == RMul(call.offered_odds, call.fair_prob)
        IN  /\ IsOk(result)
            /\ (call.offered_odds = RDiv(One, call.fair_prob)) => result.value = Zero
            /\ RLt(One, op) => RLt(Zero, result.value)
            /\ RLt(op, One) => RLt(result.value, Zero)

\* offered odds 100/53 at fair probability 0.53: EV 0
C13_Witness ==
    /\ Returns("calculate_ev")
    /\ call.fair_prob = R(53, 100)
    /\ call.offered_odds = R(100, 53)
    /\ IsOk(result)
    /\ result.value = Zero

(***************************************************************************)
(* C14.  In get_fair_odds_and_ev an exchange contributes to the consensus  *)
(* if and only if its name is a key of the exchange weight table and its   *)
(* liquidity is greater than or equal to the liquidity threshold (a        *)
(* missing liquidity figure counts as 0) and its quote devigs; an exchange *)
(* below the threshold is skipped without failing the call (the call       *)
(* returns what it returns without exchange data), and exchanges_used      *)
(* counts exactly the exchanges that contributed.                          *)
(***************************************************************************)
C14_Liquidity(e) ==
    IF "liquidity" \in DOMAIN call.exchange_data[e]
    THEN call.exchange_data[e].liquidity ELSE 0

\* the exchanges of the call that are in the weight table at or above the threshold
C14_Admitted ==
    {e \in DOMAIN call.exchange_data :
        e \in DOMAIN exchange_weights /\ C14_Liquidity(e) >= liquidity_threshold}

C14_Contributors ==
    {e \in C14_Admitted :
        /\ "odds" \in DOMAIN call.exchange_data[e]
        /\ Devigs(call.exchange_data[e].odds)}

C14_ExchangeGate ==
    Returns("get_fair_odds_and_ev") =>
        /\ IsOk(result) =>
              /\ result.exchanges_used = Cardinality(C14_Contributors)
              /\ {c \in DOMAIN result.book_contributions :
                     result.book_contributions[c].book_type = "exchange"} = C14_Contributors
              /\ C14_Contributors # {} =>
                    IsWeightedAverage(result.fair_prob, C1_Books, WeightedQuotes, weights,
                                      C14_Contributors,
                                      [e \in C14_Contributors |-> call.exchange_data[e].odds],
                                      exchange_weights)
        /\ C14_Admitted = {} =>
              result = get_fair_odds_and_ev(call.odds_data, <<>>, call.offered_odds)

\* an exchange exactly at the threshold contributes while an exchange outside
\* the weight table is skipped
C14_Witness ==
    /\ Returns("get_fair_odds_and_ev")
    /\ DOMAIN call.exchange_data = {"ProphetX", "Kalshi"}
    /\ "liquidity" \in DOMAIN call.exchange_data["ProphetX"]
    /\ call.exchange_data["ProphetX"].liquidity = liquidity_threshold
    /\ IsOk(result)
    /\ result.exchanges_used = 1
    /\ DOMAIN call.odds_data # {}

\* an exchange below the threshold is skipped and the call returns
C14_WitnessSkipped ==
    /\ Returns("get_fair_odds_and_ev")
    /\ DOMAIN call.exchange_data = {"ProphetX"}
    /\ "liquidity" \in DOMAIN call.exchange_data["ProphetX"]
    /\ call.exchange_data["ProphetX"].liquidity < liquidity_threshold
    /\ IsOk(result)
    /\ result.exchanges_used = 0

\* with a threshold of 0 an exchange without a liquidity figure contributes
C14_WitnessNoLiquidity ==
    /\ Returns("get_fair_odds_and_ev")
    /\ DOMAIN call.exchange_data = {"ProphetX"}
    /\ "liquidity" \notin DOMAIN call.exchange_data["ProphetX"]
    /\ IsOk(result)
    /\ result.exchanges_used = 1

(***************************************************************************)
(* C15.  When the caller passes get_fair_odds_and_ev an offered price that *)
(* is <= 1.0 (including 0), the call is rejected with a failure; it does   *)
(* not return a consensus result in which the offered price was ignored.   *)
(***************************************************************************)
C15_OfferedPriceRejected ==
    (/\ Returns("get_fair_odds_and_ev")
     /\ call.offered_odds # <<>>
     /\ RLe(call.offered_odds[1], One)) => ~IsOk(result)

(***************************************************************************)
(* American odds.                                                          *)
(***************************************************************************)

\* the last call was decimal_to_american, of SharpEdge or of PlayerPropsModel
IsAmericanCall ==
    pc = "returned" /\ call.op \in {"decimal_to_american", "props_decimal_to_american"}

\* the American odds of decimal odds d = n/m > 1 by integer division:
\* the integer part of (d - 1) * 100 = 100 (n - m) / m for d >= 2, and
\* minus the integer part of 100 / (d - 1) = 100 m / (n - m) below 2
AmericanNumber(d) ==
    IF d[1] >= 2 * d[2]
    THEN (100 * (d[1] - d[2])) \div d[2]
    ELSE -((100 * d[2]) \div (d[1] - d[2]))

AmericanString(d) ==
    IF d[1] >= 2 * d[2]
    THEN "+" \o ToString(AmericanNumber(d))
    ELSE ToString(AmericanNumber(d))

\* the weighted average of the contributors of the last get_fair_odds_and_ev,
\* as an optional value: none when the contributors' weights sum to 0
C16_Average ==
    LET E == C1_Exchanges
        xq == [e \in E |-> call.exchange_data[e].odds]
        total == RAdd(SumOver(C1_Books, weights), SumOver(E, exchange_weights))
        weighted ==
            RAdd(SumOver(C1_Books, [b \in C1_Books |->
                                       RMul(SideAProb(WeightedQuotes[b]), weights[b])]),
                 SumOver(E, [e \in E |-> RMul(SideAProb(xq[e]), exchange_weights[e])]))
    IN  IF IsZero(total) THEN <<>> ELSE <<RDiv(weighted, total)>>

C16_WitnessConsensus ==
    /\ IsConsensusCall
    /\ IsOk(result)
    /\ result.fair_prob = R(11, 20)
    /\ result.fair_odds_american = "-122"

(***************************************************************************)
(* C17.  For every decimal odds d >= 2.0, converting d to American odds A  *)
(* with decimal_to_american and back with 1 + A/100 gives a value d' with  *)
(* d' <= d and d - d' < 0.01.                                              *)
(***************************************************************************)
\* the number a string of positive American odds ("+130") denotes, as an
\* optional value: none when s is not '+' and the digits of a number up to hi
ParseAmerican(s, hi) ==
    LET matches == {a \in 0..hi : s = "+" \o ToString(a)}
    IN  IF matches = {} THEN <<>> ELSE <<CHOOSE a \in matches : TRUE>>

\* the American odds of the last call, read back from the returned string
C17_American == ParseAmerican(result.value, 100 * (RTrunc(call.decimal_odds) + 1))

C17_RoundTrip ==
    (IsAmericanCall /\ RLe(R(2, 1), call.decimal_odds)) =>
        /\ IsOk(result)
        /\ C17_American # <<>>
        /\ LET back == RAdd(One, R(C17_American[1], 100))
           IN  /\ RLe(back, call.decimal_odds)
               /\ RLt(RSub(call.decimal_odds, back), R(1, 100))

\* 2.005 converts to +100 and back to 2.0: the round trip loses 0.005
C17_Witness ==
    /\ IsAmericanCall
    /\ call.decimal_odds = R(401, 200)
    /\ IsOk(result)
    /\ result.value = "+100"
    /\ C17_American = <<100>>

(***************************************************************************)
(* C18.  The EV analysis classifies the EV percentage by fixed thresholds  *)
(* with inclusive lower bounds: EV >= 3.0 is 'excellent', 1.5 <= EV < 3.0  *)
(* is 'good', 0.5 <= EV < 1.5 is 'marginal', and EV < 0.5 (including every *)
(* negative EV) is 'poor'.                                                 *)
(***************************************************************************)
\* the EV analysis the last call returned, as an optional value
C18_Analysis ==
    IF pc = "returned" /\ IsOk(result) /\ call.op = "calculate_comprehensive_ev"
    THEN <<result.value>>
    ELSE IF pc = "returned" /\ IsOk(result) /\ call.op = "get_fair_odds_and_ev"
    THEN result.ev_analysis
    ELSE <<>>

C18_QualityOf(ev) ==
    CASE RLe(R(3, 1), ev) -> "excellent"
      [] RLe(R(3, 2), ev) /\ RLt(ev, R(3, 1)) -> "good"
      [] RLe(R(1, 2), ev) /\ RLt(ev, R(3, 2)) -> "marginal"
      [] RLt(ev, R(1, 2)) -> "poor"

C18_EvQualityThresholds ==
    C18_Analysis # <<>> =>
        LET a == C18_Analysis[1]
        IN  /\ RAdd(RDiv(a.ev_percentage, R(100, 1)), One)
                  = RMul(a.fair_probability, a.offered_odds)
            /\ a.ev_quality = C18_QualityOf(a.ev_percentage)

\* an EV of exactly 3.0 is 'excellent', of exactly 1.5 'good', of exactly 0.5
\* 'marginal'
C18_Witness ==
    /\ C18_Analysis # <<>>
    /\ \/ C18_Analysis[1].ev_percentage = R(3, 1) /\ C18_Analysis[1].ev_quality = "excellent"
       \/ C18_Analysis[1].ev_percentage = R(3, 2) /\ C18_Analysis[1].ev_quality = "good"
       \/ C18_Analysis[1].ev_percentage = R(1, 2) /\ C18_Analysis[1].ev_quality = "marginal"

\* a negative EV is 'poor'
C18_WitnessPoor ==
    /\ C18_Analysis # <<>>
    /\ RLt(C18_Analysis[1].ev_percentage, Zero)
    /\ C18_Analysis[1].ev_quality = "poor"
    /\ call.op = "get_fair_odds_and_ev"

(***************************************************************************)
(* Player props.                                                           *)
(***************************************************************************)

\* the last call was one of the two prop analyses
IsPropAnalysis ==
    pc = "returned" /\ call.op \in {"analyze_over_under_prop", "analyze_yes_no_prop"}

\* the lines the books of the last call supply, as a function of the book
SuppliedLines ==
    [b \in {x \in DOMAIN call.prop_data : "line" \in DOMAIN call.prop_data[x]} |->
        call.prop_data[b].line]

(***************************************************************************)
(* C19.  analyze_over_under_prop and analyze_yes_no_prop fail with an      *)
(* insufficient-books error, before computing a consensus line or any      *)
(* probability (so also when the consensus line or the probability would   *)
(* fail), whenever the prop data contains fewer books than the model's     *)
(* configured min_books.                                                   *)
(***************************************************************************)
C19_InsufficientBooksFails ==
    (IsPropAnalysis /\ Cardinality(DOMAIN call.prop_data) < min_books) =>
        /\ result.kind = "ValueError"
        /\ result.msg = "Need at least " \o ToString(min_books) \o " books for analysis"

\* two books, neither with a line, under min_books = 3: the error is the
\* insufficient-books error, not the consensus line's
C19_Witness ==
    /\ Returns("analyze_over_under_prop")
    /\ min_books = 3
    /\ Cardinality(DOMAIN call.prop_data) = 2
    /\ DOMAIN SuppliedLines = {}
    /\ result.kind = "ValueError"
    /\ result.msg = "Need at least 3 books for analysis"

\* the yes/no analysis of one weighted book under min_books = 2
C19_WitnessYesNo ==
    /\ Returns("analyze_yes_no_prop")
    /\ min_books = 2
    /\ Cardinality(DOMAIN call.prop_data) = 1
    /\ result.kind = "ValueError"
    /\ result.msg = "Need at least 2 books for analysis"

\* with exactly min_books books the analysis is carried out
C19_WitnessEnough ==
    /\ IsPropAnalysis
    /\ Cardinality(DOMAIN call.prop_data) = min_books
    /\ IsOk(result)

(***************************************************************************)
(* C20.  calculate_consensus_line returns the weighted average of the      *)
(* lines of the books that have a positive prop weight and supply a line   *)
(* (sum of line * weight divided by sum of those weights); when no         *)
(* positively weighted book supplies a line it returns the unweighted      *)
(* median of all supplied lines, and it fails when no book supplies a      *)
(* line.                                                                   *)
(***************************************************************************)
\* the books of the last call with a positive prop weight that supply a line
C20_WeightedBooks ==
    {b \in DOMAIN SuppliedLines : b \in DOMAIN prop_weights /\ prop_weights[b][1] > 0}

\* m is a median of the lines f: as many lines at or below m as at or above,
\* and m is a supplied line or the midpoint of the two middle ones
IsMedian(m, f) ==
    LET below == {b \in DOMAIN f : RLt(f[b], m)}
        above == {b \in DOMAIN f : RLt(m, f[b])}
        n == Cardinality(DOMAIN f)
    IN  /\ 2 * Cardinality(below) <= n
        /\ 2 * Cardinality(above) <= n
        /\ \/ \E b \in DOMAIN f : f[b] = m /\ n % 2 = 1
           \/ /\ n % 2 = 0
              /\ \E lo, hi \in DOMAIN f :
                    /\ lo # hi
                    /\ RLe(f[lo], f[hi])
                    /\ RMul(m, R(2, 1)) = RAdd(f[lo], f[hi])
                    /\ Cardinality({b \in DOMAIN f : RLt(f[b], f[lo])})
                           <= (n \div 2) - 1
                    /\ Cardinality({b \in DOMAIN f : RLt(f[hi], f[b])})
                           <= (n \div 2) - 1

C20_ConsensusLine ==
    Returns("calculate_consensus_line") =>
        /\ C20_WeightedBooks # {} =>
              /\ IsOk(result)
              /\ RMul(result.value, SumOver(C20_WeightedBooks, prop_weights))
                    = SumOver(C20_WeightedBooks,
                              [b \in C20_WeightedBooks |->
                                  RMul(SuppliedLines[b], prop_weights[b])])
        /\ (C20_WeightedBooks = {} /\ DOMAIN SuppliedLines # {}) =>
              /\ IsOk(result)
              /\ IsMedian(result.value, SuppliedLines)
        /\ DOMAIN SuppliedLines = {} =>
              /\ result.kind = "ValueError"
              /\ result.msg = "No valid lines found for consensus calculation"

\* FanDuel (0.28) at 250.5 and Circa (0.22) at 251.5, among unweighted lines:
\* the consensus line is 250.94
C20_Witness ==
    /\ Returns("calculate_consensus_line")
    /\ C20_WeightedBooks = {"FanDuel", "Circa"}
    /\ SuppliedLines["FanDuel"] = R(501, 2)
    /\ SuppliedLines["Circa"] = R(503, 2)
    /\ DOMAIN SuppliedLines # C20_WeightedBooks
    /\ IsOk(result)
    /\ result.value = R(25094, 100)

\* no positively weighted line: the median of the three lines 300, 240, 249.5
C20_WitnessMedian ==
    /\ Returns("calculate_consensus_line")
    /\ C20_WeightedBooks = {}
    /\ Cardinality(DOMAIN SuppliedLines) = 3
    /\ IsOk(result)
    /\ result.value = R(499, 2)


(***************************************************************************)
(* The search for opportunities.                                           *)
(***************************************************************************)
IsSearch == Returns("find_prop_ev_opportunities")

\* the sides of the prop searched: yes and no, or over and under
SearchSides ==
    IF \E b \in DOMAIN call.prop_data : "yes_odds" \in DOMAIN call.prop_data[b]
    THEN YesNoSides ELSE OverUnderSides

\* the (book, side) pairs of the prop data
SearchPairs == {<<b, i>> : b \in DOMAIN call.prop_data, i \in 1..2}

\* a pair is quoted when the book has that side's odds and they exceed 1.0
PairQuoted(p) ==
    /\ SearchSides[p[2]].odds \in DOMAIN call.prop_data[p[1]]
    /\ RLt(One, call.prop_data[p[1]][SearchSides[p[2]].odds])

\* the EV percentage of a quoted pair against its side's fair probability:
\* 100 * (fair_prob * offered_odds - 1)
PairEv(p) ==
    RMul(R(100, 1),
         RSub(RMul(call.analysis[SearchSides[p[2]].prob],
                   call.prop_data[p[1]][SearchSides[p[2]].odds]), One))

\* the entries returned for a pair
EntriesOf(p) ==
    {i \in DOMAIN result.value :
        /\ result.value[i].book_name = p[1]
        /\ result.value[i].bet_type = SearchSides[p[2]].bet_type}

\* C21: when every (book, side) of the prop data is quoted,
\* find_prop_ev_opportunities returns; its list has exactly one entry for
\* each pair whose EV percentage is at least min_ev, carrying that EV, no
\* entry for a pair below min_ev, and runs from the highest EV percentage to
\* the lowest
C21_OpportunitiesFilteredAndSorted ==
    (IsSearch /\ \A p \in SearchPairs : PairQuoted(p)) =>
        /\ IsOk(result)
        /\ \A p \in SearchPairs :
              IF RLe(call.min_ev, PairEv(p))
              THEN /\ Cardinality(EntriesOf(p)) = 1
                   /\ \A i \in EntriesOf(p) : result.value[i].ev_percentage = PairEv(p)
              ELSE EntriesOf(p) = {}
        /\ \A i \in DOMAIN result.value :
              \E p \in SearchPairs : i \in EntriesOf(p)
        /\ \A i, j \in DOMAIN result.value :
              i < j => RLe(result.value[j].ev_percentage, result.value[i].ev_percentage)

\* a search returns several opportunities, not all of one EV, the last of
\* them exactly at min_ev, and leaves a pair below min_ev out
C21_Witness ==
    /\ IsSearch /\ IsOk(result)
    /\ \A p \in SearchPairs : PairQuoted(p)
    /\ Len(result.value) >= 2
    /\ RLt(result.value[Len(result.value)].ev_percentage, result.value[1].ev_percentage)
    /\ result.value[Len(result.value)].ev_percentage = call.min_ev
    /\ \E p \in SearchPairs : RLt(PairEv(p), call.min_ev)

\* a search whose opportunities were appended out of order
C21_WitnessReordered ==
    /\ IsSearch /\ IsOk(result)
    /\ \E i, j \in DOMAIN result.value :
          /\ i < j
          /\ result.value[i].book_name # result.value[j].book_name
          /\ SetToSeq(DOMAIN call.prop_data)[1] = result.value[j].book_name
          /\ RLt(result.value[j].ev_percentage, result.value[i].ev_percentage)


\* the tier the prop weight table gives a book
C22_TierOf(b) ==
    IF b \in DOMAIN prop_weights /\ RLe(R(15, 100), prop_weights[b]) THEN "Sharp"
    ELSE IF b \in DOMAIN prop_weights /\ RLt(Zero, prop_weights[b])
            /\ RLt(prop_weights[b], R(15, 100))
    THEN "Recreational"
    ELSE "Unweighted"

\* C22: every opportunity returned by find_prop_ev_opportunities carries the
\* tier of its book: Sharp for a prop weight of at least 0.15, Recreational
\* for a weight above 0 and below 0.15, Unweighted for a weight of 0 or a
\* book absent from prop_weights
C22_OpportunityTier ==
    (IsSearch /\ IsOk(result)) =>
        \A i \in DOMAIN result.value :
            result.value[i].book_tier = C22_TierOf(result.value[i].book_name)

\* one search returns opportunities of a Sharp book, of a Recreational book,
\* of a book of prop weight 0 and of a book absent from prop_weights
C22_Witness ==
    /\ IsSearch /\ IsOk(result)
    /\ \E i, j, k, l \in DOMAIN result.value :
          /\ result.value[i].book_tier = "Sharp"
          /\ result.value[j].book_tier = "Recreational"
          /\ result.value[k].book_tier = "Unweighted"
          /\ result.value[k].book_name \in DOMAIN prop_weights
          /\ result.value[l].book_tier = "Unweighted"
          /\ result.value[l].book_name \notin DOMAIN prop_weights


\* a book of the prop data is malformed when one of its sides is not quoted:
\* the side is missing or its odds are 1.0 or less
MalformedSearchBooks ==
    {b \in DOMAIN call.prop_data : \E i \in 1..2 : ~PairQuoted(<<b, i>>)}

\* C27: find_prop_ev_opportunities skips a malformed book on its own: the
\* search returns, with an entry for every side of the other books whose EV
\* percentage is at least min_ev
C27_MalformedBookSkipped ==
    (IsSearch /\ MalformedSearchBooks # {}) =>
        /\ IsOk(result)
        /\ \A p \in SearchPairs :
              (p[1] \notin MalformedSearchBooks /\ RLe(call.min_ev, PairEv(p)))
                  => EntriesOf(p) # {}


\* C29: an analysis that returns a result used at least min_books books
C29_BooksUsedAtLeastMinBooks ==
    (IsPropAnalysis /\ IsOk(result)) => result.books_used >= min_books


C24_WitnessBooks ==
    /\ Returns("get_fair_odds_and_ev") /\ IsOk(result)
    /\ result.books_used = 2
    /\ result.exchanges_used = 0
    /\ Cardinality(DOMAIN call.odds_data) = 3


(***************************************************************************)
(* Spread and totals analyses against the consensus call.                  *)
(***************************************************************************)
IsMarketAnalysis ==
    pc = "returned" /\ call.op \in {"analyze_spread_market", "analyze_totals_market"}

\* the spreads_data or totals_data of the last analysis and its two odds keys
MarketDataOfCall ==
    IF call.op = "analyze_spread_market" THEN call.spreads_data ELSE call.totals_data
MarketSides ==
    IF call.op = "analyze_spread_market" THEN <<"home_odds", "away_odds">>
    ELSE <<"over_odds", "under_odds">>

\* the odds mapping {book: (side-A odds, side-B odds)} of the analysed data; a
\* book that lacks a side has the tuple of the odds it does carry
AsOddsData ==
    [b \in DOMAIN MarketDataOfCall |->
        [i \in 1..2 |-> IF MarketSides[i] \in DOMAIN MarketDataOfCall[b]
                        THEN <<MarketDataOfCall[b][MarketSides[i]]>> ELSE <<>>][1]
        \o [i \in 1..2 |-> IF MarketSides[i] \in DOMAIN MarketDataOfCall[b]
                           THEN <<MarketDataOfCall[b][MarketSides[i]]>> ELSE <<>>][2]]

\* C25: analyze_spread_market and analyze_totals_market return what
\* get_fair_odds_and_ev returns on the same quotes as tuples: the same fair
\* probability, fair decimal odds, fair American odds and books_used, and an
\* error exactly when get_fair_odds_and_ev raises one, also when a book's
\* quote is malformed
C25_AnalysesMatchConsensus ==
    IsMarketAnalysis =>
        /\ IsOk(result) <=> IsOk(get_fair_odds_and_ev(AsOddsData, <<>>, <<>>))
        /\ IsOk(result) =>
              /\ result.fair_prob = get_fair_odds_and_ev(AsOddsData, <<>>, <<>>).fair_prob
              /\ result.fair_odds_decimal
                     = get_fair_odds_and_ev(AsOddsData, <<>>, <<>>).fair_odds_decimal
              /\ result.fair_odds_american
                     = get_fair_odds_and_ev(AsOddsData, <<>>, <<>>).fair_odds_american
              /\ result.books_used = get_fair_odds_and_ev(AsOddsData, <<>>, <<>>).books_used


\* the books whose quote entered the consensus of the last analysis
C26_Contributors == {b \in DOMAIN WeightedQuotes : Devigs(WeightedQuotes[b])}

\* the numeric line a book quotes in the last analysis: the home point of a
\* spread, the point of a total
C26_LineOf(b) ==
    IF call.op = "analyze_spread_market" THEN MarketDataOfCall[b].home_point
    ELSE MarketDataOfCall[b].point

\* C26: the books aggregated into the fair probability of a spread or totals
\* analysis all quote the same numeric line
C26_OneLinePerConsensus ==
    (IsMarketAnalysis /\ IsOk(result)) =>
        \A a, b \in C26_Contributors : C26_LineOf(a) = C26_LineOf(b)

(***************************************************************************)
(* The weight tables of the NFL engine.                                    *)
(***************************************************************************)
\* C28: whatever the caller does with the mappings get_nfl_weights returned,
\* the primary table of the engine is the table __init__ set (the fallback
\* table is never handed out), so a later call returns the same weights
C28_TablesUnchanged == nfl_weights_primary = nfl_weights_primary_init

(***************************************************************************)
(* The EV analysis of a consensus call.                                    *)
(***************************************************************************)
\* the sign of a rational: -1, 0 or 1
Sign(x) == IF x[1] < 0 THEN -1 ELSE IF x[1] = 0 THEN 0 ELSE 1

\* C30: in the EV analysis of a get_fair_odds_and_ev result the odds edge
\* percentage equals the EV percentage, both being
\* 100 * (offered_odds * fair_prob - 1), and the probability edge has the
\* sign of the EV percentage
C30_EdgesAgreeWithEv ==
    (Returns("get_fair_odds_and_ev") /\ IsOk(result) /\ result.ev_analysis # <<>>) =>
        /\ result.ev_analysis[1].odds_edge_percentage = result.ev_analysis[1].ev_percentage
        /\ result.ev_analysis[1].ev_percentage
               = RMul(R(100, 1), RSub(RMul(call.offered_odds[1], result.fair_prob), One))
        /\ Sign(result.ev_analysis[1].probability_edge)
               = Sign(result.ev_analysis[1].ev_percentage)

\* an offered price of 2.05 against a fair probability of 0.55: both edges
\* are positive
C30_Witness ==
    /\ Returns("get_fair_odds_and_ev") /\ IsOk(result) /\ result.ev_analysis # <<>>
    /\ Sign(result.ev_analysis[1].ev_percentage) = 1
    /\ Sign(result.ev_analysis[1].probability_edge) = 1

\* an offered price of 1.5: both edges are negative
C30_WitnessNegative ==
    /\ Returns("get_fair_odds_and_ev") /\ IsOk(result) /\ result.ev_analysis # <<>>
    /\ Sign(result.ev_analysis[1].ev_percentage) = -1
    /\ Sign(result.ev_analysis[1].probability_edge) = -1

=============================================================================
